---- MODULE Spec2Model ----
(***************************************************************************)
(* Layered Pareto-frontier pool of boyuruan/DEG:                           *)
(*   include/multi_vector_gps.h  (MultiVectorNeighbor, MultiVectorGPS)     *)
(*   include/multi_vector_deg.h  (MultiVectorDEG, same pool operations)    *)
(*                                                                         *)
(* The specifications share the variables:                                 *)
(*   SpecFS  one call of findSkyline on a drawn input                      *)
(*   Spec    single-threaded calls of initNeighbor / updateNeighbor /      *)
(*           insert / clear / setNumDimensions on one instance             *)
(*   SpecDeep  the same calls with one more input point and pool slot      *)
(*   SpecMT  several threads calling the locked operations, one step per   *)
(*           lock acquisition, loop pass and lock release                  *)
(*   SpecInit  one initNeighbor call on a drawn input, kept for comparison *)
(*   SpecDim  construction and setNumDimensions of both classes            *)
(*   SpecGwc  one call of generateWeightCombinations in float arithmetic   *)
(*   SpecIdx  getWeightIndex on probe weights of a constructed instance    *)
(*   SpecBits  the pruning bitmap of MultiVectorDEGNeighbor and the        *)
(*           bounds-checked accessors of MultiVectorDEG                    *)
(*   SpecPeel  one thread running initNeighbor then updateNeighbor, with   *)
(*           weak fairness on its steps                                    *)
(*   SpecQueue  MultiVectorSkylineQueue: initQueue / updateNeighbor(nk) /  *)
(*           clear                                                         *)
(*   SpecHull  one call of MultiVectorSkylineQueue::findConvexHull         *)
(*   SpecCopy  Spec and SpecQueue with the copy constructors               *)
(*   SpecOps  Spec without setNumDimensions, inputs with distinct ids      *)
(*   SpecDegPool  the pool of MultiVectorDEG, points with their bitmaps    *)
(*   SpecRace  SpecPeel with setNumDimensions called by another thread     *)
(***************************************************************************)
EXTENDS Integers, Sequences, FiniteSets, TLC

\* ---------------------------------------------------------------- bounds
MaxFS == 3      \* longest input of a direct findSkyline call
MaxLen == 1     \* longest input vector of one initNeighbor call (Spec)
MaxPool == 2    \* initNeighbor is not called when pool_ would exceed this (Spec)
MaxM == 1       \* capacities M_ are 0..MaxM
MaxInit == 3    \* longest input of the initNeighbor call of SpecInit

VARIABLES
    pool_,            \* MultiVectorGPS::pool_
    outlier_,         \* MultiVectorGPS::outlier_
    num_layer_,       \* MultiVectorGPS::num_layer_
    num_dimensions_,  \* MultiVectorGPS::num_dimensions_
    M_,               \* MultiVectorGPS::M_
    called,           \* the operation called last, "none" before the first call
    error,            \* exception thrown by the last call, "none" if it returned
    fs_points,        \* findSkyline: argument points
    fs_skyline,       \* findSkyline: argument skyline (output)
    fs_remain,        \* findSkyline: argument remain_points (output)
    fs_state,         \* findSkyline: "idle", "called", "returned", "thrown"
    lock_,            \* MultiVectorGPS::lock_: the thread that holds it, 0 if free
    pc,               \* per thread: where it is in the operation it runs
    points_,          \* per thread: its insert_points / candidate vector
    l_,               \* per thread: its local l
    caller_points,    \* SpecInit: the points the caller built for its
                      \* initNeighbor call, as they were before the call
    object,           \* the class of the instance: "GPS", "DEG", or "none"
                      \* before construction and after a constructor threw
    weight_combinations_, \* MultiVectorDEG::weight_combinations_
    gwc,              \* generateWeightCombinations: its argument, locals,
                      \* the frames of backtrack and the returned vector
    arg,              \* the arguments of the last call of a member that
                      \* takes an index or returns a value
    ret,              \* what that call returned
    neighbor          \* the MultiVectorDEGNeighbor objects of the caller:
                      \* none or one

vars == <<pool_, outlier_, num_layer_, num_dimensions_, M_, called, error,
          fs_points, fs_skyline, fs_remain, fs_state, lock_, pc, points_, l_,
          caller_points, object, weight_combinations_, gwc, arg, ret, neighbor>>

degVars == <<object, weight_combinations_>>

gwcVars == <<gwc>>

auxVars == <<arg, ret, neighbor>>

\* no call has returned a value
auxInit ==
    /\ arg = <<>>
    /\ ret = "none"
    /\ neighbor = <<>>

mtVars == <<lock_, pc, points_, l_>>

fsVars == <<fs_points, fs_skyline, fs_remain, fs_state>>

\* no call of generateWeightCombinations is running
gwcIdle == [state |-> "idle"]

\* ------------------------------------------------------------ the points
DefaultDim == 2   \* MultiVectorGPS(): num_dimensions_(2)
Threads == {1, 2} \* the threads that share one instance (SpecMT)
Ids == {1, 2}     \* the ids a caller uses
Dims == {1, 2}    \* the dimensionalities a caller uses
Values == {0, 1}  \* the distance values a caller uses
Vectors(d) == [1..d -> Values]
AllVectors == UNION {Vectors(d) : d \in Dims}

\* MultiVectorNeighbor(id, distances, f, layer)
MultiVectorNeighbor(id, distances, f, layer) ==
    [id_ |-> id, distances_ |-> distances, flag |-> f, layer_ |-> layer]

\* the points a caller builds: flag true, layer 0, as in the tests
InputPoints == {MultiVectorNeighbor(i, v, TRUE, 0) : i \in Ids, v \in AllVectors}

\* the points the callers of one pool build: vectors of the default
\* dimensionality, while the instance's num_dimensions_ ranges over Dims
PoolPoints ==
    {MultiVectorNeighbor(i, v, TRUE, 0) : i \in Ids, v \in Vectors(DefaultDim)}

SeqsUpTo(S, n) == UNION {[1..k -> S] : k \in 0..n}

Min2(a, b) == IF a < b THEN a ELSE b

\* the input vectors of an initNeighbor call: at most maxlen points, and
\* not more than would take pool_ beyond maxpool points
InitInputs(maxlen, maxpool) ==
    SeqsUpTo(PoolPoints, Min2(maxlen, maxpool - Len(pool_)))

\* MultiVectorNeighbor::operator< : lexicographic on the distance vectors
RECURSIVE LessFrom(_, _, _)
LessFrom(a, b, i) ==
    IF i <= Len(a.distances_) /\ i <= Len(b.distances_)
    THEN IF a.distances_[i] # b.distances_[i]
         THEN a.distances_[i] < b.distances_[i]
         ELSE LessFrom(a, b, i + 1)
    ELSE Len(a.distances_) < Len(b.distances_)

Less(a, b) == LessFrom(a, b, 1)

\* std::sort(begin, end) with operator<: the result is a permutation of s
\* with no inversion; the order of equivalent elements is unspecified
Perms(n) == {f \in [1..n -> 1..n] : \A i, j \in 1..n : i # j => f[i] # f[j]}
IsSorted(s) == \A i, j \in 1..Len(s) : i < j => ~Less(s[j], s[i])
\* mutant of SortResults: the vector is left as it is
SortResultsAsIs(s) == {s}

SortResults(s) ==
    {t \in {[i \in 1..Len(s) |-> s[f[i]]] : f \in Perms(Len(s))} : IsSorted(t)}

\* ------------------------------------------------------------ findSkyline
\* the dimension loop of findSkyline: does other dominate point
\* (dominates && strictly_less after the loop, break on the first greater)
\* mutant of DomLoop: the strictly_less test is forgotten, so that a point
\* with an equal vector counts as dominating
RECURSIVE DomLoopNoStrict(_, _, _, _, _)
DomLoopNoStrict(other, point, dim, expected_dim, strictly_less) ==
    IF dim > expected_dim
    THEN TRUE
    ELSE IF other.distances_[dim] > point.distances_[dim]
         THEN FALSE
         ELSE DomLoopNoStrict(other, point, dim + 1, expected_dim, strictly_less)

\* mutant of DomLoop: a greater component does not end the test
RECURSIVE DomLoopAnyLess(_, _, _, _, _)
DomLoopAnyLess(other, point, dim, expected_dim, strictly_less) ==
    IF dim > expected_dim
    THEN strictly_less
    ELSE DomLoopAnyLess(other, point, dim + 1, expected_dim,
                        strictly_less \/ other.distances_[dim] < point.distances_[dim])

RECURSIVE DomLoop(_, _, _, _, _)
DomLoop(other, point, dim, expected_dim, strictly_less) ==
    IF dim > expected_dim
    THEN strictly_less
    ELSE IF other.distances_[dim] > point.distances_[dim]
         THEN FALSE
         ELSE DomLoop(other, point, dim + 1, expected_dim,
                      strictly_less \/ other.distances_[dim] < point.distances_[dim])

\* the inner loop of findSkyline: is_skyline of point
IsSkyline(point, points, expected_dim) ==
    ~ \E k \in 1..Len(points) :
          /\ points[k].id_ # point.id_
          /\ DomLoop(points[k], point, 1, expected_dim, FALSE)

\* the validation loop of findSkyline
DimensionMismatch(points, expected_dim) ==
    \E k \in 1..Len(points) : Len(points[k].distances_) # expected_dim

\* mutant of FindSkyline: the validation runs inside the main loop, so the
\* first point is output before the exception
FindSkylineLateCheck(points, skyline, remain_points, expected_dim) ==
    IF points = <<>>
    THEN [thrown |-> FALSE, skyline |-> skyline, remain_points |-> remain_points]
    ELSE IF DimensionMismatch(points, expected_dim)
    THEN [thrown |-> TRUE, skyline |-> Append(skyline, points[1]),
          remain_points |-> remain_points]
    ELSE [thrown |-> FALSE,
          skyline |-> skyline \o
              SelectSeq(points, LAMBDA p : IsSkyline(p, points, expected_dim)),
          remain_points |-> remain_points \o
              SelectSeq(points, LAMBDA p : ~IsSkyline(p, points, expected_dim))]

\* findSkyline(points, skyline, remain_points) on an instance with
\* num_dimensions_ = expected_dim; thrown is the std::invalid_argument
FindSkyline(points, skyline, remain_points, expected_dim) ==
    IF points = <<>>
    THEN [thrown |-> FALSE, skyline |-> skyline, remain_points |-> remain_points]
    ELSE IF DimensionMismatch(points, expected_dim)
    THEN [thrown |-> TRUE, skyline |-> skyline, remain_points |-> remain_points]
    ELSE [thrown |-> FALSE,
          skyline |-> skyline \o
              SelectSeq(points, LAMBDA p : IsSkyline(p, points, expected_dim)),
          remain_points |-> remain_points \o
              SelectSeq(points, LAMBDA p : ~IsSkyline(p, points, expected_dim))]

\* ------------------------------------------------- SpecFS: one findSkyline
InitFS ==
    /\ pool_ = <<>>
    /\ outlier_ = <<>>
    /\ num_layer_ = 0
    /\ num_dimensions_ \in Dims
    /\ M_ = 0
    /\ called = "none"
    /\ error = "none"
    /\ fs_points \in SeqsUpTo(InputPoints, MaxFS)
    /\ fs_skyline = <<>>
    /\ fs_remain = <<>>
    /\ fs_state = "called"
    /\ lock_ = 0
    /\ pc = [t \in Threads |-> "call"]
    /\ points_ = [t \in Threads |-> <<>>]
    /\ l_ = [t \in Threads |-> 0]
    /\ caller_points = <<>>
    /\ object = "GPS"
    /\ weight_combinations_ = <<>>
    /\ gwc = gwcIdle
    /\ auxInit

FindSkylineCall ==
    /\ fs_state = "called"
    /\ LET r == FindSkyline(fs_points, fs_skyline, fs_remain, num_dimensions_)
       IN /\ fs_skyline' = r.skyline
          /\ fs_remain' = r.remain_points
          /\ fs_state' = IF r.thrown THEN "thrown" ELSE "returned"
          /\ error' = IF r.thrown THEN "invalid_argument" ELSE "none"
    /\ called' = "findSkyline"
    /\ UNCHANGED <<pool_, outlier_, num_layer_, num_dimensions_, M_, fs_points, mtVars, caller_points, degVars, gwcVars, auxVars>>

NextFS == FindSkylineCall

SpecFS == InitFS /\ [][NextFS]_vars

\* --------------------------------------------------- findSkyline: claims
\* Pareto dominance of distance vectors, as the tests' verifyParetoFrontier
\* computes it: a <= b in every dimension and a < b in at least one
Dominates(a, b) ==
    /\ Len(a) = Len(b)
    /\ \A i \in 1..Len(a) : a[i] <= b[i]
    /\ \E i \in 1..Len(a) : a[i] < b[i]

InSeq(p, s) == \E k \in 1..Len(s) : s[k] = p

\* C1: findSkyline called with empty outputs on an input of the instance's
\* dimensionality puts every input point in exactly one of skyline and
\* remain_points, and a point p is in skyline iff no other point q of the
\* input dominates p.
C1_FrontierIffUndominated ==
    fs_state = "returned" =>
        /\ Len(fs_skyline) + Len(fs_remain) = Len(fs_points)
        /\ \A i \in 1..Len(fs_points) :
              LET p == fs_points[i]
              IN /\ InSeq(p, fs_skyline) <=> ~InSeq(p, fs_remain)
                 /\ InSeq(p, fs_skyline) <=>
                       ~ \E j \in 1..Len(fs_points) :
                             /\ j # i
                             /\ Dominates(fs_points[j].distances_, p.distances_)

\* C2: any two distinct points of a skyline returned by findSkyline do not
\* dominate each other.
C2_FrontierMutuallyNonDominated ==
    fs_state = "returned" =>
        \A i, j \in 1..Len(fs_skyline) :
            i # j => ~Dominates(fs_skyline[i].distances_, fs_skyline[j].distances_)

\* C3: every point findSkyline puts in remain_points is dominated by a point
\* of the skyline returned by the same call.
C3_RemainderCovered ==
    fs_state = "returned" =>
        \A i \in 1..Len(fs_remain) :
            \E j \in 1..Len(fs_skyline) :
                Dominates(fs_skyline[j].distances_, fs_remain[i].distances_)

\* C3 witness: a call returned with a remainder point whose dominator in
\* the input is itself in the remainder, so that only a third point covers it
C3_Witness ==
    /\ fs_state = "returned"
    /\ \E i, j \in 1..Len(fs_remain) :
          Dominates(fs_remain[j].distances_, fs_remain[i].distances_)

\* ------------------------------------------- Spec: the pool, single-threaded
\* mutant of InitEmplace: the last point of the frontier is not appended
InitEmplaceButLast(skyline_result, l) ==
    [i \in 1..(Len(skyline_result) - 1) |->
        MultiVectorNeighbor(skyline_result[i].id_, skyline_result[i].distances_, TRUE, l)]

\* the points initNeighbor puts in pool_ for one frontier:
\* pool_.emplace_back(point.id_, point.distances_, true, l)
InitEmplace(skyline_result, l) ==
    [i \in 1..Len(skyline_result) |->
        MultiVectorNeighbor(skyline_result[i].id_, skyline_result[i].distances_, TRUE, l)]

\* the while loop of initNeighbor from one of its loop heads; thrown: the
\* exception of findSkyline leaves the loop with the mutations made so far
RECURSIVE InitLoop(_, _, _, _, _)
InitLoop(insert_points, pool, outlier, l, d) ==
    IF insert_points = <<>>
    THEN [thrown |-> FALSE, pool |-> pool, outlier |-> outlier, l |-> l]
    ELSE LET r == FindSkyline(insert_points, <<>>, <<>>, d)
         IN IF r.thrown
            THEN [thrown |-> TRUE, pool |-> pool, outlier |-> outlier, l |-> l]
            ELSE InitLoop(r.remain_points, pool \o InitEmplace(r.skyline, l),
                          r.skyline, l + 1, d)

\* initNeighbor(insert_points)
initNeighbor(insert_points) ==
    /\ LET r == InitLoop(insert_points, pool_, outlier_, 0, num_dimensions_)
       IN IF r.thrown
          THEN /\ pool_' = r.pool
               /\ outlier_' = r.outlier
               /\ num_layer_' = num_layer_
               /\ error' = "invalid_argument"
          ELSE /\ pool_' \in SortResults(r.pool)
               /\ outlier_' = r.outlier
               /\ num_layer_' = r.l
               /\ error' = "none"
    /\ called' = "initNeighbor"
    /\ UNCHANGED <<num_dimensions_, M_, fsVars, mtVars, caller_points, degVars, gwcVars, auxVars>>

\* the points updateNeighbor puts in pool_ for one frontier:
\* pool_.emplace_back(point.id_, point.distances_, point.flag, l)
UpdateEmplace(skyline_result, l) ==
    [i \in 1..Len(skyline_result) |->
        MultiVectorNeighbor(skyline_result[i].id_, skyline_result[i].distances_,
                            skyline_result[i].flag, l)]

\* mutant of UpdateLoop: the loop ignores the capacity M_
RECURSIVE UpdateLoopNoCap(_, _, _, _, _, _)
UpdateLoopNoCap(candidate, pool, outlier, l, m, d) ==
    IF ~(Len(candidate) > 0)
    THEN [thrown |-> FALSE, pool |-> pool, outlier |-> outlier, l |-> l]
    ELSE LET r == FindSkyline(candidate, <<>>, <<>>, d)
         IN IF r.thrown
            THEN [thrown |-> TRUE, pool |-> pool, outlier |-> outlier, l |-> l]
            ELSE UpdateLoopNoCap(r.remain_points, pool \o UpdateEmplace(r.skyline, l),
                                 r.skyline, l + 1, m, d)

\* the while loop of updateNeighbor from one of its loop heads
RECURSIVE UpdateLoop(_, _, _, _, _, _)
UpdateLoop(candidate, pool, outlier, l, m, d) ==
    IF ~(Len(pool) < m /\ Len(candidate) > 0)
    THEN [thrown |-> FALSE, pool |-> pool, outlier |-> outlier, l |-> l]
    ELSE LET r == FindSkyline(candidate, <<>>, <<>>, d)
         IN IF r.thrown
            THEN [thrown |-> TRUE, pool |-> pool, outlier |-> outlier, l |-> l]
            ELSE UpdateLoop(r.remain_points, pool \o UpdateEmplace(r.skyline, l),
                            r.skyline, l + 1, m, d)

\* updateNeighbor()
updateNeighbor ==
    /\ \E candidate \in SortResults(pool_) :
          LET r == UpdateLoop(candidate, <<>>, outlier_, 0, M_, num_dimensions_)
          IN /\ pool_' = r.pool
             /\ outlier_' = r.outlier
             /\ num_layer_' = IF r.thrown THEN num_layer_ ELSE r.l
             /\ error' = IF r.thrown THEN "invalid_argument" ELSE "none"
    /\ called' = "updateNeighbor"
    /\ UNCHANGED <<num_dimensions_, M_, fsVars, mtVars, caller_points, degVars, gwcVars, auxVars>>

\* mutant of HasId: the scan misses the first element
HasIdSkipFirst(points, id) == \E k \in 2..Len(points) : points[k].id_ = id

\* the two duplicate scans of insert
HasId(points, id) == \E k \in 1..Len(points) : points[k].id_ = id

\* mutant of insert: the duplicate scans come before the length check
insert_scan_first(id, distances) ==
    /\ IF HasId(pool_, id) \/ HasId(outlier_, id)
       THEN /\ error' = "none"
            /\ UNCHANGED <<pool_, outlier_>>
       ELSE IF Len(distances) # num_dimensions_
       THEN /\ error' = "invalid_argument"
            /\ UNCHANGED <<pool_, outlier_>>
       ELSE /\ error' = "none"
            /\ outlier_' = Append(outlier_, MultiVectorNeighbor(id, distances, TRUE, 0))
            /\ UNCHANGED pool_
    /\ called' = "insert"
    /\ UNCHANGED <<num_layer_, num_dimensions_, M_, fsVars, mtVars, caller_points, degVars, gwcVars, auxVars>>

\* mutant of insert: the new point goes to pool_ at once
insert_into_pool(id, distances) ==
    /\ IF Len(distances) # num_dimensions_
       THEN /\ error' = "invalid_argument"
            /\ UNCHANGED <<pool_, outlier_>>
       ELSE /\ error' = "none"
            /\ IF HasId(pool_, id) \/ HasId(outlier_, id)
               THEN UNCHANGED <<pool_, outlier_>>
               ELSE /\ pool_' = Append(pool_, MultiVectorNeighbor(id, distances, TRUE, 0))
                    /\ UNCHANGED outlier_
    /\ called' = "insert"
    /\ UNCHANGED <<num_layer_, num_dimensions_, M_, fsVars, mtVars, caller_points, degVars, gwcVars, auxVars>>

\* insert(id, distances)
insert(id, distances) ==
    /\ IF Len(distances) # num_dimensions_
       THEN /\ error' = "invalid_argument"
            /\ UNCHANGED <<pool_, outlier_>>
       ELSE /\ error' = "none"
            /\ IF HasId(pool_, id) \/ HasId(outlier_, id)
               THEN UNCHANGED <<pool_, outlier_>>
               ELSE /\ outlier_' = Append(outlier_, MultiVectorNeighbor(id, distances, TRUE, 0))
                    /\ UNCHANGED pool_
    /\ called' = "insert"
    /\ UNCHANGED <<num_layer_, num_dimensions_, M_, fsVars, mtVars, caller_points, degVars, gwcVars, auxVars>>

\* mutant of clear: outlier_ is not cleared
clear_pool_only ==
    /\ pool_' = <<>>
    /\ outlier_' = outlier_
    /\ num_layer_' = 0
    /\ error' = "none"
    /\ called' = "clear"
    /\ UNCHANGED <<num_dimensions_, M_, fsVars, mtVars, caller_points, degVars, gwcVars, auxVars>>

\* clear()
clear ==
    /\ pool_' = <<>>
    /\ outlier_' = <<>>
    /\ num_layer_' = 0
    /\ error' = "none"
    /\ called' = "clear"
    /\ UNCHANGED <<num_dimensions_, M_, fsVars, mtVars, caller_points, degVars, gwcVars, auxVars>>

\* mutant of setNumDimensions: a valid call empties the container
setNumDimensions_clearing(num_dimensions) ==
    /\ IF num_dimensions < 1
       THEN /\ error' = "invalid_argument"
            /\ UNCHANGED num_dimensions_
       ELSE /\ error' = "none"
            /\ num_dimensions_' = num_dimensions
    /\ pool_' = IF num_dimensions < 1 THEN pool_ ELSE <<>>
    /\ outlier_' = IF num_dimensions < 1 THEN outlier_ ELSE <<>>
    /\ num_layer_' = IF num_dimensions < 1 THEN num_layer_ ELSE 0
    /\ called' = "setNumDimensions"
    /\ UNCHANGED <<M_, fsVars, mtVars, caller_points, degVars, gwcVars, auxVars>>

\* setNumDimensions(num_dimensions)
setNumDimensions(num_dimensions) ==
    /\ IF num_dimensions < 1
       THEN /\ error' = "invalid_argument"
            /\ UNCHANGED num_dimensions_
       ELSE /\ error' = "none"
            /\ num_dimensions_' = num_dimensions
    /\ called' = "setNumDimensions"
    /\ UNCHANGED <<pool_, outlier_, num_layer_, M_, fsVars, mtVars, caller_points, degVars, gwcVars, auxVars>>

\* MultiVectorGPS(m, s, q, num_dimensions): an empty instance
Init ==
    /\ pool_ = <<>>
    /\ outlier_ = <<>>
    /\ num_layer_ = 0
    /\ num_dimensions_ \in Dims
    /\ M_ \in 0..MaxM
    /\ called = "none"
    /\ error = "none"
    /\ fs_points = <<>>
    /\ fs_skyline = <<>>
    /\ fs_remain = <<>>
    /\ fs_state = "idle"
    /\ lock_ = 0
    /\ pc = [t \in Threads |-> "call"]
    /\ points_ = [t \in Threads |-> <<>>]
    /\ l_ = [t \in Threads |-> 0]
    /\ caller_points = <<>>
    /\ object = "GPS"
    /\ weight_combinations_ = <<>>
    /\ gwc = gwcIdle
    /\ auxInit

Next ==
    \/ \E insert_points \in InitInputs(MaxLen, MaxPool) : initNeighbor(insert_points)
    \/ updateNeighbor
    \/ \E id \in Ids, distances \in Vectors(DefaultDim) : insert(id, distances)
    \/ clear
    \/ \E num_dimensions \in Dims \cup {0} : setNumDimensions(num_dimensions)

Spec == Init /\ [][Next]_vars

\* SpecDeep: the same instance and operations, with one more point per
\* initNeighbor call and one more point in pool_ than Spec
NextDeep ==
    \/ \E insert_points \in InitInputs(MaxLen + 1, MaxPool + 1) : initNeighbor(insert_points)
    \/ updateNeighbor
    \/ \E id \in Ids, distances \in Vectors(DefaultDim) : insert(id, distances)
    \/ clear
    \/ \E num_dimensions \in Dims \cup {0} : setNumDimensions(num_dimensions)

SpecDeep == Init /\ [][NextDeep]_vars

\* ------------------------------------------- SpecMT: threads and the lock
\* pc[t] = "call": thread t is at the lock_guard of the operation it calls
\* next; any other value: it is inside that operation, after its lock_guard
\* mutant of lock_guard: the thread enters without waiting for lock_
lock_guard_nowait(t, entry, insert_points) ==
    /\ pc[t] = "call"
    /\ lock_' = t
    /\ pc' = [pc EXCEPT ![t] = entry]
    /\ points_' = [points_ EXCEPT ![t] = insert_points]
    /\ l_' = [l_ EXCEPT ![t] = 0]
    /\ UNCHANGED <<pool_, outlier_, num_layer_, num_dimensions_, M_, called, error, fsVars, caller_points, degVars, gwcVars, auxVars>>

\* std::lock_guard<std::mutex> guard(lock_) of the four operations; entry
\* names the operation, insert_points the argument of initNeighbor
lock_guard(t, entry, insert_points) ==
    /\ pc[t] = "call"
    /\ lock_ = 0
    /\ lock_' = t
    /\ pc' = [pc EXCEPT ![t] = entry]
    /\ points_' = [points_ EXCEPT ![t] = insert_points]
    /\ l_' = [l_ EXCEPT ![t] = 0]
    /\ UNCHANGED <<pool_, outlier_, num_layer_, num_dimensions_, M_, called, error, fsVars, caller_points, degVars, gwcVars, auxVars>>

\* mutant of unlock: the scope ends and lock_ stays taken
unlock_leak(t) ==
    /\ pc[t] = "unlock"
    /\ lock_' = lock_
    /\ pc' = [pc EXCEPT ![t] = "call"]
    /\ points_' = [points_ EXCEPT ![t] = <<>>]
    /\ l_' = [l_ EXCEPT ![t] = 0]
    /\ UNCHANGED <<pool_, outlier_, num_layer_, num_dimensions_, M_, called, error, fsVars, caller_points, degVars, gwcVars, auxVars>>

\* the end of the operation's scope: the lock_guard releases lock_
unlock(t) ==
    /\ pc[t] = "unlock"
    /\ lock_' = 0
    /\ pc' = [pc EXCEPT ![t] = "call"]
    /\ points_' = [points_ EXCEPT ![t] = <<>>]
    /\ l_' = [l_ EXCEPT ![t] = 0]
    /\ UNCHANGED <<pool_, outlier_, num_layer_, num_dimensions_, M_, called, error, fsVars, caller_points, degVars, gwcVars, auxVars>>

\* initNeighbor: one evaluation of the loop condition, then one pass of the
\* loop body or the statements after the loop
initNeighbor_pass(t) ==
    /\ pc[t] = "initNeighbor"
    /\ IF points_[t] = <<>>
       THEN /\ num_layer_' = l_[t]
            /\ pool_' \in SortResults(pool_)
            /\ pc' = [pc EXCEPT ![t] = "unlock"]
            /\ called' = "initNeighbor"
            /\ error' = "none"
            /\ UNCHANGED <<outlier_, points_, l_>>
       ELSE LET r == FindSkyline(points_[t], <<>>, <<>>, num_dimensions_)
            IN IF r.thrown
               THEN /\ pc' = [pc EXCEPT ![t] = "unlock"]
                    /\ called' = "initNeighbor"
                    /\ error' = "invalid_argument"
                    /\ UNCHANGED <<pool_, outlier_, num_layer_, points_, l_>>
               ELSE /\ pool_' = pool_ \o InitEmplace(r.skyline, l_[t])
                    /\ outlier_' = r.skyline
                    /\ points_' = [points_ EXCEPT ![t] = r.remain_points]
                    /\ l_' = [l_ EXCEPT ![t] = l_[t] + 1]
                    /\ UNCHANGED <<num_layer_, pc, called, error>>
    /\ UNCHANGED <<num_dimensions_, M_, lock_, fsVars, caller_points, degVars, gwcVars, auxVars>>

\* updateNeighbor up to its loop: candidate.swap(pool_), sort(candidate)
updateNeighbor_swap(t) ==
    /\ pc[t] = "updateNeighbor"
    /\ \E candidate \in SortResults(pool_) :
          points_' = [points_ EXCEPT ![t] = candidate]
    /\ pool_' = <<>>
    /\ pc' = [pc EXCEPT ![t] = "updateNeighbor_loop"]
    /\ UNCHANGED <<outlier_, num_layer_, num_dimensions_, M_, called, error,
                   lock_, l_, fsVars, caller_points, degVars, gwcVars, auxVars>>

\* updateNeighbor: one evaluation of the loop condition, then one pass of
\* the loop body or the statement after the loop
updateNeighbor_pass(t) ==
    /\ pc[t] = "updateNeighbor_loop"
    /\ IF ~(Len(pool_) < M_ /\ Len(points_[t]) > 0)
       THEN /\ num_layer_' = l_[t]
            /\ pc' = [pc EXCEPT ![t] = "unlock"]
            /\ called' = "updateNeighbor"
            /\ error' = "none"
            /\ UNCHANGED <<pool_, outlier_, points_, l_>>
       ELSE LET r == FindSkyline(points_[t], <<>>, <<>>, num_dimensions_)
            IN IF r.thrown
               THEN /\ pc' = [pc EXCEPT ![t] = "unlock"]
                    /\ called' = "updateNeighbor"
                    /\ error' = "invalid_argument"
                    /\ UNCHANGED <<pool_, outlier_, num_layer_, points_, l_>>
               ELSE /\ pool_' = pool_ \o UpdateEmplace(r.skyline, l_[t])
                    /\ outlier_' = r.skyline
                    /\ points_' = [points_ EXCEPT ![t] = r.remain_points]
                    /\ l_' = [l_ EXCEPT ![t] = l_[t] + 1]
                    /\ UNCHANGED <<num_layer_, pc, called, error>>
    /\ UNCHANGED <<num_dimensions_, M_, lock_, fsVars, caller_points, degVars, gwcVars, auxVars>>

\* insert(id, distances) after its lock_guard
insert_body(t, id, distances) ==
    /\ pc[t] = "insert"
    /\ IF Len(distances) # num_dimensions_
       THEN /\ error' = "invalid_argument"
            /\ UNCHANGED <<pool_, outlier_>>
       ELSE /\ error' = "none"
            /\ IF HasId(pool_, id) \/ HasId(outlier_, id)
               THEN UNCHANGED <<pool_, outlier_>>
               ELSE /\ outlier_' = Append(outlier_, MultiVectorNeighbor(id, distances, TRUE, 0))
                    /\ UNCHANGED pool_
    /\ called' = "insert"
    /\ pc' = [pc EXCEPT ![t] = "unlock"]
    /\ UNCHANGED <<num_layer_, num_dimensions_, M_, lock_, points_, l_, fsVars, caller_points, degVars, gwcVars, auxVars>>

\* clear() after its lock_guard
clear_body(t) ==
    /\ pc[t] = "clear"
    /\ pool_' = <<>>
    /\ outlier_' = <<>>
    /\ num_layer_' = 0
    /\ called' = "clear"
    /\ error' = "none"
    /\ pc' = [pc EXCEPT ![t] = "unlock"]
    /\ UNCHANGED <<num_dimensions_, M_, lock_, points_, l_, fsVars, caller_points, degVars, gwcVars, auxVars>>

InitMT == Init

NextMT ==
    \E t \in Threads :
        \/ \E insert_points \in InitInputs(MaxLen, MaxPool) :
               lock_guard(t, "initNeighbor", insert_points)
        \/ \E entry \in {"updateNeighbor", "insert", "clear"} :
               lock_guard(t, entry, <<>>)
        \/ initNeighbor_pass(t)
        \/ updateNeighbor_swap(t)
        \/ updateNeighbor_pass(t)
        \/ \E id \in Ids, distances \in Vectors(DefaultDim) : insert_body(t, id, distances)
        \/ clear_body(t)
        \/ unlock(t)

SpecMT == InitMT /\ [][NextMT]_vars

\* the steps of thread t inside an operation
ThreadStep(t) ==
    \/ initNeighbor_pass(t)
    \/ updateNeighbor_swap(t)
    \/ updateNeighbor_pass(t)
    \/ \E id \in Ids, distances \in Vectors(DefaultDim) : insert_body(t, id, distances)
    \/ clear_body(t)
    \/ unlock(t)

\* ------------------------------------------------------ the lock: claims
\* thread t is inside initNeighbor, updateNeighbor, insert or clear
InCriticalSection(t) == pc[t] # "call"

\* C9: with several threads calling initNeighbor, updateNeighbor, insert and
\* clear on one instance, at most one of them is inside such an operation at
\* any time, and it is the holder of lock_.
C9_MutualExclusion ==
    /\ \A t \in Threads : InCriticalSection(t) => lock_ = t
    /\ \A t1, t2 \in Threads :
          (InCriticalSection(t1) /\ InCriticalSection(t2)) => t1 = t2

\* C9 witness: a thread is between two passes of its peeling loop, having
\* mutated pool_, while the other thread is at the lock_guard of its call
C9_Witness ==
    \E t1, t2 \in Threads :
        /\ t1 # t2
        /\ pc[t1] \in {"initNeighbor", "updateNeighbor_loop"}
        /\ l_[t1] > 0
        /\ pool_ # <<>>
        /\ pc[t2] = "call"
        /\ ~ENABLED lock_guard(t2, "clear", <<>>)

\* ------------------------------------------------------ the pool: claims
Returned(op) == called = op /\ error = "none"

\* C4: after every completed initNeighbor call, whatever preceded it, no
\* point of pool_ in a later layer dominates a point in an earlier layer.
C4_LaterLayerNeverDominatesEarlier ==
    Returned("initNeighbor") =>
        \A i, j \in 1..Len(pool_) :
            pool_[i].layer_ < pool_[j].layer_ =>
                ~Dominates(pool_[j].distances_, pool_[i].distances_)

\* C5: in every state between calls, no two points of pool_ with the same
\* layer number dominate each other.
C5_SameLayerNonDominated ==
    \A i, j \in 1..Len(pool_) :
        (i # j /\ pool_[i].layer_ = pool_[j].layer_) =>
            ~Dominates(pool_[i].distances_, pool_[j].distances_)

\* C6 as claimed: after every completed updateNeighbor call pool_ holds at
\* most M_ points.
C6_PoolWithinCapacity ==
    Returned("updateNeighbor") => Len(pool_) <= M_

\* C6 as amended: after every completed updateNeighbor call the admitted
\* layers other than the last one hold fewer than M_ points together, and
\* pool_ is empty when no layer was admitted (M_ = 0 admits none).
C6_SoftCapacity ==
    Returned("updateNeighbor") =>
        IF num_layer_ = 0
        THEN pool_ = <<>>
        ELSE /\ Cardinality({i \in 1..Len(pool_) : pool_[i].layer_ < num_layer_ - 1}) < M_
             /\ \A i \in 1..Len(pool_) : pool_[i].layer_ < num_layer_

\* C6 witness: an updateNeighbor call returned with more than M_ > 0 points
C6_Witness ==
    /\ Returned("updateNeighbor")
    /\ M_ > 0
    /\ Len(pool_) > M_

\* C7: a point that insert put in outlier_ is folded in by the next
\* updateNeighbor: when M_ admits every layer of pool_ and outlier_ together,
\* every point of outlier_ is in pool_ after the call.
C7_UpdateFoldsOutliers ==
    [][(called' = "updateNeighbor" /\ error' = "none"
            /\ Len(pool_) + Len(outlier_) <= M_) =>
        \A k \in 1..Len(outlier_) :
            ~HasId(pool_, outlier_[k].id_) =>
                \E j \in 1..Len(pool_') :
                    /\ pool_'[j].id_ = outlier_[k].id_
                    /\ pool_'[j].distances_ = outlier_[k].distances_]_vars

\* C8: insert with a vector of the instance's length and an id present in
\* pool_ or outlier_ returns without error and changes neither pool_ nor
\* outlier_ nor num_layer_.
C8_DuplicateInsertIsNoOp ==
    [][\A id \in Ids, distances \in Vectors(DefaultDim) :
          (/\ insert(id, distances)
           /\ Len(distances) = num_dimensions_
           /\ \/ \E k \in 1..Len(pool_) : pool_[k].id_ = id
              \/ \E k \in 1..Len(outlier_) : outlier_[k].id_ = id) =>
              /\ error' = "none"
              /\ pool_' = pool_
              /\ outlier_' = outlier_
              /\ num_layer_' = num_layer_]_vars

\* C8 witness: insert returned and every point of outlier_ has its id in
\* pool_, so the call appended nothing: its id was a duplicate
C8_Witness ==
    /\ Returned("insert")
    /\ pool_ # <<>>
    /\ outlier_ # <<>>
    /\ \A k \in 1..Len(outlier_) : HasId(pool_, outlier_[k].id_)

\* C10: a call of initNeighbor, updateNeighbor or insert that fails with the
\* dimension error leaves pool_, outlier_ and num_layer_ as they were.
C10_AllOrNothing ==
    [][(error' = "invalid_argument"
            /\ called' \in {"initNeighbor", "updateNeighbor", "insert"}) =>
        /\ pool_' = pool_
        /\ outlier_' = outlier_
        /\ num_layer_' = num_layer_]_vars

\* ------------------- SpecInit: one initNeighbor call on an empty instance
InitIds == {1, 2, 3}  \* the ids of the caller's points

\* the points the caller builds, with vectors of the default dimensionality
InitPoints ==
    {MultiVectorNeighbor(i, v, TRUE, 0) : i \in InitIds, v \in Vectors(DefaultDim)}

\* a newly constructed instance and the points its caller has built
InitCall ==
    /\ pool_ = <<>>
    /\ outlier_ = <<>>
    /\ num_layer_ = 0
    /\ num_dimensions_ \in Dims
    /\ M_ = 0
    /\ called = "none"
    /\ error = "none"
    /\ fs_points = <<>>
    /\ fs_skyline = <<>>
    /\ fs_remain = <<>>
    /\ fs_state = "idle"
    /\ lock_ = 0
    /\ pc = [t \in Threads |-> "call"]
    /\ points_ = [t \in Threads |-> <<>>]
    /\ l_ = [t \in Threads |-> 0]
    /\ caller_points \in SeqsUpTo(InitPoints, MaxInit)
    /\ object = "GPS"
    /\ weight_combinations_ = <<>>
    /\ gwc = gwcIdle
    /\ auxInit

\* thread 1 calls initNeighbor once, passing a vector that holds the
\* caller's points by reference (points_[1]), and runs the call to its end
NextInit ==
    \/ called = "none" /\ lock_guard(1, "initNeighbor", caller_points)
    \/ initNeighbor_pass(1)
    \/ unlock(1)

SpecInit == InitCall /\ [][NextInit]_vars

\* ---------------------------------------------------- layering: claims
SetMax(S) == CHOOSE x \in S : \A y \in S : y <= x

\* the peeling depth of the vector v in the set V of vectors: 0 when no
\* vector of V dominates v, else one more than the deepest of its dominators
RECURSIVE PeelDepth(_, _)
PeelDepth(v, V) ==
    LET D == {u \in V : Dominates(u, v)}
    IN IF D = {} THEN 0 ELSE 1 + SetMax({PeelDepth(u, V) : u \in D})

VectorsOf(points) == {points[k].distances_ : k \in 1..Len(points)}

\* the number of frontiers that peeling the points yields
NumFrontiers(points) ==
    IF points = <<>>
    THEN 0
    ELSE 1 + SetMax({PeelDepth(v, VectorsOf(points)) : v \in VectorsOf(points)})

DistinctIds(points) ==
    \A i, j \in 1..Len(points) : i # j => points[i].id_ # points[j].id_

UniformDim(points, d) ==
    \A k \in 1..Len(points) : Len(points[k].distances_) = d

\* C11: initNeighbor(points) on an instance with an empty pool_, points with
\* pairwise distinct ids and vectors of the instance's dimensionality: the
\* call returns; at its end pool_ holds exactly the input points, each id
\* once with its distance vector and one layer number below num_layer_;
\* pool_ is as long as the input; the vector the caller passed is empty; and
\* num_layer_ is the number of frontiers peeled.
C11_InitializeTakesEveryPoint ==
    (/\ pc[1] = "unlock"
     /\ called = "initNeighbor"
     /\ DistinctIds(caller_points)
     /\ UniformDim(caller_points, num_dimensions_)) =>
        /\ error = "none"
        /\ Len(pool_) = Len(caller_points)
        /\ \A k \in 1..Len(caller_points) :
              LET J == {j \in 1..Len(pool_) : pool_[j].id_ = caller_points[k].id_}
              IN /\ Cardinality(J) = 1
                 /\ \A j \in J :
                       /\ pool_[j].distances_ = caller_points[k].distances_
                       /\ pool_[j].layer_ \in 0..(num_layer_ - 1)
        /\ \A j \in 1..Len(pool_) :
              \E k \in 1..Len(caller_points) : caller_points[k].id_ = pool_[j].id_
        /\ points_[1] = <<>>
        /\ num_layer_ = NumFrontiers(caller_points)

\* C11 witness: the call is at its end with three points of distinct ids in
\* pool_, in more than one layer, and the vector the caller passed is empty
C11_Witness ==
    /\ pc[1] = "unlock"
    /\ Returned("initNeighbor")
    /\ Len(caller_points) = 3
    /\ Len(pool_) = 3
    /\ DistinctIds(pool_)
    /\ num_layer_ > 1
    /\ points_[1] = <<>>

\* the peeling depth of the k-th point of points among them
DepthAt(points, k) == PeelDepth(points[k].distances_, VectorsOf(points))

\* how many of the points lie in the peeling layers 0..n-1
CumSize(points, n) ==
    Cardinality({i \in 1..Len(points) : DepthAt(points, i) < n})

\* the number of layers a pass with capacity m admits: none if m = 0, all
\* if the points are fewer than m, else the least number whose layers hold
\* m points or more
AdmittedLayers(points, m) ==
    LET total == NumFrontiers(points)
    IN IF m = 0 THEN 0
       ELSE IF CumSize(points, total) < m THEN total
       ELSE CHOOSE n \in 1..total :
                /\ CumSize(points, n) >= m
                /\ \A n2 \in 1..(n - 1) : CumSize(points, n2) < m

\* C12: a completed updateNeighbor leaves in pool_ exactly the points of the
\* peeling layers 0..k-1 of the old pool_, k = AdmittedLayers(pool_, M_), each
\* once and with its peeling depth as layer number, and sets num_layer_ = k.
C12_UpdateKeepsPeelingPrefix ==
    [][(called' = "updateNeighbor" /\ error' = "none") =>
        LET k == AdmittedLayers(pool_, M_)
        IN /\ num_layer_' = k
           /\ Len(pool_') = CumSize(pool_, k)
           /\ \A i \in 1..Len(pool_) :
                 DepthAt(pool_, i) < k =>
                     Cardinality({j \in 1..Len(pool_') :
                                     /\ pool_'[j].id_ = pool_[i].id_
                                     /\ pool_'[j].distances_ = pool_[i].distances_
                                     /\ pool_'[j].layer_ = DepthAt(pool_, i)})
                       = Cardinality({j \in 1..Len(pool_) :
                                     /\ pool_[j].id_ = pool_[i].id_
                                     /\ pool_[j].distances_ = pool_[i].distances_})]_vars

\* C13: from one completed layering pass (initNeighbor or updateNeighbor) to
\* the next, the layer number of an id that pool_ held before the pass and
\* still holds after it never decreases.
C13_LayerNeverDecreases ==
    [][(called' \in {"initNeighbor", "updateNeighbor"} /\ error' = "none") =>
        \A i \in 1..Len(pool_), j \in 1..Len(pool_') :
            pool_'[j].id_ = pool_[i].id_ => pool_'[j].layer_ >= pool_[i].layer_]_vars

\* the point p (its id and distance vector) is in the sequence s
HoldsPoint(s, p) ==
    \E k \in 1..Len(s) : s[k].id_ = p.id_ /\ s[k].distances_ = p.distances_

\* C14: no initNeighbor, insert or updateNeighbor call removes a point: every
\* point of pool_ or outlier_ before the call is in pool_ or outlier_ after it.
C14_NoPointRemoved ==
    [][(called' \in {"initNeighbor", "insert", "updateNeighbor"}) =>
        /\ \A k \in 1..Len(pool_) :
              HoldsPoint(pool_', pool_[k]) \/ HoldsPoint(outlier_', pool_[k])
        /\ \A k \in 1..Len(outlier_) :
              HoldsPoint(pool_', outlier_[k]) \/ HoldsPoint(outlier_', outlier_[k])]_vars

\* C15: insert(id, distances) with a vector whose length differs from
\* num_dimensions_ throws invalid_argument, for an id that is new and for an
\* id that is in pool_ or outlier_, and leaves pool_, outlier_ and num_layer_
\* unchanged.
C15_InsertRejectsWrongLength ==
    [][\A id \in Ids, distances \in Vectors(DefaultDim) :
          (insert(id, distances) /\ Len(distances) # num_dimensions_) =>
              /\ error' = "invalid_argument"
              /\ pool_' = pool_
              /\ outlier_' = outlier_
              /\ num_layer_' = num_layer_]_vars

\* C15 witness: insert threw while every id a caller uses was in pool_ or
\* outlier_, so the rejected id was a duplicate
C15_Witness ==
    /\ called = "insert"
    /\ error = "invalid_argument"
    /\ \A id \in Ids :
          \/ \E k \in 1..Len(pool_) : pool_[k].id_ = id
          \/ \E k \in 1..Len(outlier_) : outlier_[k].id_ = id

\* C16: findSkyline on an input in which a point's vector length differs
\* from num_dimensions_, at whatever position, throws invalid_argument and
\* appends nothing to skyline or remain_points.
C16_MixedDimensionsRejected ==
    (/\ fs_state \in {"returned", "thrown"}
     /\ \E k \in 1..Len(fs_points) :
           Len(fs_points[k].distances_) # num_dimensions_) =>
        /\ fs_state = "thrown"
        /\ error = "invalid_argument"
        /\ fs_skyline = <<>>
        /\ fs_remain = <<>>

\* C16 witness: the call threw on three points of which only the last one
\* has a vector of another length
C16_Witness ==
    /\ fs_state = "thrown"
    /\ Len(fs_points) = 3
    /\ Len(fs_points[1].distances_) = num_dimensions_
    /\ Len(fs_points[2].distances_) = num_dimensions_
    /\ Len(fs_points[3].distances_) # num_dimensions_

\* lexicographic order of two distance vectors
LexLess(u, v) ==
    \/ \E i \in 1..Len(u) :
          /\ i <= Len(v)
          /\ u[i] < v[i]
          /\ \A j \in 1..(i - 1) : u[j] = v[j]
    \/ /\ Len(u) < Len(v)
       /\ \A j \in 1..Len(u) : u[j] = v[j]

\* C17: after a completed initNeighbor, pool_ is in non-decreasing
\* lexicographic order of the distance vectors: no element is
\* lexicographically smaller than its predecessor.
C17_PoolSortedAfterInitialize ==
    Returned("initNeighbor") =>
        \A k \in 1..(Len(pool_) - 1) :
            ~LexLess(pool_[k + 1].distances_, pool_[k].distances_)

\* C17 witness: initNeighbor returned and a point of a later layer stands
\* before a point of an earlier layer, which the order of appending excludes
C17_Witness ==
    /\ Returned("initNeighbor")
    /\ \E i, j \in 1..Len(pool_) :
          /\ i < j
          /\ pool_[i].layer_ > pool_[j].layer_
          /\ LexLess(pool_[i].distances_, pool_[j].distances_)

\* C18: clear() in any reachable state returns with pool_ and outlier_ empty
\* and num_layer_ = 0, and an insert that follows it, with a vector of the
\* instance's length, is accepted for every id: the point is in outlier_.
C18_ClearEmptiesEverything ==
    [][/\ clear =>
            /\ error' = "none"
            /\ pool_' = <<>>
            /\ outlier_' = <<>>
            /\ num_layer_' = 0
       /\ \A id \in Ids, distances \in Vectors(DefaultDim) :
            (/\ called = "clear"
             /\ insert(id, distances)
             /\ Len(distances) = num_dimensions_) =>
                /\ error' = "none"
                /\ outlier_' = <<MultiVectorNeighbor(id, distances, TRUE, 0)>>
                /\ pool_' = <<>>]_vars

\* C18 witness: clear returned on an instance whose capacity admits points;
\* pool_, outlier_ and num_layer_ are in their cleared state
C18_Witness ==
    /\ Returned("clear")
    /\ M_ > 0
    /\ pool_ = <<>>
    /\ outlier_ = <<>>
    /\ num_layer_ = 0

\* ------------------- SpecDim: construction and setNumDimensions, both classes
MAX_VECTOR_DIM == 8   \* constexpr size_t MAX_VECTOR_DIM = 8

\* the dimensionalities a caller asks for: each valid one, 0, and the first
\* one beyond MAX_VECTOR_DIM
DimArgs == 0..(MAX_VECTOR_DIM + 1)

\* the vector generateWeightCombinations(num_dimensions) returns, named by
\* the argument that determines it
GeneratedFor(num_dimensions) == <<"generateWeightCombinations", num_dimensions>>

\* initializeWeightCombinations(), given the num_dimensions_ just assigned
initializeWeightCombinations(num_dimensions) == GeneratedFor(num_dimensions)

\* getNumDimensions()
getNumDimensions == num_dimensions_

\* MultiVectorGPS(m, s, q, num_dimensions): the exception leaves no instance
MultiVectorGPS(m, s, q, num_dimensions) ==
    /\ object = "none"
    /\ IF num_dimensions < 1
       THEN /\ error' = "invalid_argument"
            /\ UNCHANGED <<object, M_, num_dimensions_>>
       ELSE /\ error' = "none"
            /\ object' = "GPS"
            /\ M_' = m
            /\ num_dimensions_' = num_dimensions
    /\ called' = "MultiVectorGPS"
    /\ UNCHANGED <<pool_, outlier_, num_layer_, weight_combinations_,
                   fsVars, mtVars, caller_points, gwcVars, auxVars>>

\* MultiVectorDEG(m, s, q, num_dimensions)
MultiVectorDEG(m, s, q, num_dimensions) ==
    /\ object = "none"
    /\ IF num_dimensions < 1 \/ num_dimensions > MAX_VECTOR_DIM
       THEN /\ error' = "invalid_argument"
            /\ UNCHANGED <<object, M_, num_dimensions_, weight_combinations_>>
       ELSE /\ error' = "none"
            /\ object' = "DEG"
            /\ M_' = m
            /\ num_dimensions_' = num_dimensions
            /\ weight_combinations_' = initializeWeightCombinations(num_dimensions)
    /\ called' = "MultiVectorDEG"
    /\ UNCHANGED <<pool_, outlier_, num_layer_, fsVars, mtVars, caller_points, gwcVars, auxVars>>

\* mutant of MultiVectorDEG_setNumDimensions: the test against MAX_VECTOR_DIM
\* is missing
MultiVectorDEG_setNumDimensions_no_max(num_dimensions) ==
    /\ IF num_dimensions < 1
       THEN /\ error' = "invalid_argument"
            /\ UNCHANGED <<num_dimensions_, weight_combinations_>>
       ELSE /\ error' = "none"
            /\ num_dimensions_' = num_dimensions
            /\ weight_combinations_' = initializeWeightCombinations(num_dimensions)
    /\ called' = "MultiVectorDEG::setNumDimensions"
    /\ UNCHANGED <<pool_, outlier_, num_layer_, M_, object,
                   fsVars, mtVars, caller_points, gwcVars, auxVars>>

\* MultiVectorDEG::setNumDimensions(num_dimensions)
MultiVectorDEG_setNumDimensions(num_dimensions) ==
    /\ IF num_dimensions < 1 \/ num_dimensions > MAX_VECTOR_DIM
       THEN /\ error' = "invalid_argument"
            /\ UNCHANGED <<num_dimensions_, weight_combinations_>>
       ELSE /\ error' = "none"
            /\ num_dimensions_' = num_dimensions
            /\ weight_combinations_' = initializeWeightCombinations(num_dimensions)
    /\ called' = "MultiVectorDEG::setNumDimensions"
    /\ UNCHANGED <<pool_, outlier_, num_layer_, M_, object,
                   fsVars, mtVars, caller_points, gwcVars, auxVars>>

\* no instance yet
InitDim ==
    /\ pool_ = <<>>
    /\ outlier_ = <<>>
    /\ num_layer_ = 0
    /\ num_dimensions_ = 0
    /\ M_ = 0
    /\ called = "none"
    /\ error = "none"
    /\ fs_points = <<>>
    /\ fs_skyline = <<>>
    /\ fs_remain = <<>>
    /\ fs_state = "idle"
    /\ lock_ = 0
    /\ pc = [t \in Threads |-> "call"]
    /\ points_ = [t \in Threads |-> <<>>]
    /\ l_ = [t \in Threads |-> 0]
    /\ caller_points = <<>>
    /\ object = "none"
    /\ weight_combinations_ = <<>>
    /\ gwc = gwcIdle
    /\ auxInit

NextDim ==
    \/ \E m \in 0..MaxM, num_dimensions \in DimArgs :
           MultiVectorGPS(m, 0, 0, num_dimensions)
    \/ \E m \in 0..MaxM, num_dimensions \in DimArgs :
           MultiVectorDEG(m, 0, 0, num_dimensions)
    \/ \E num_dimensions \in DimArgs :
           object = "GPS" /\ setNumDimensions(num_dimensions)
    \/ \E num_dimensions \in DimArgs :
           object = "DEG" /\ MultiVectorDEG_setNumDimensions(num_dimensions)

SpecDim == InitDim /\ [][NextDim]_vars

\* C19: the constructors and setNumDimensions throw invalid_argument for a
\* dimensionality d < 1, and MultiVectorDEG's also for d > 8; a constructor
\* that throws leaves no instance; a setNumDimensions that throws leaves
\* num_dimensions_ and weight_combinations_ as they were; an accepted d is
\* what getNumDimensions returns afterwards.
C19_InvalidDimensionRejected ==
    [][\A d \in DimArgs :
        /\ (\E m \in 0..MaxM : MultiVectorGPS(m, 0, 0, d)) =>
              IF d < 1
              THEN error' = "invalid_argument" /\ object' = "none"
              ELSE error' = "none" /\ object' = "GPS" /\ getNumDimensions' = d
        /\ (\E m \in 0..MaxM : MultiVectorDEG(m, 0, 0, d)) =>
              IF d < 1 \/ d > 8
              THEN error' = "invalid_argument" /\ object' = "none"
              ELSE error' = "none" /\ object' = "DEG" /\ getNumDimensions' = d
        /\ (object = "GPS" /\ setNumDimensions(d)) =>
              IF d < 1
              THEN /\ error' = "invalid_argument"
                   /\ getNumDimensions' = getNumDimensions
              ELSE error' = "none" /\ getNumDimensions' = d
        /\ (object = "DEG" /\ MultiVectorDEG_setNumDimensions(d)) =>
              IF d < 1 \/ d > 8
              THEN /\ error' = "invalid_argument"
                   /\ getNumDimensions' = getNumDimensions
                   /\ weight_combinations_' = weight_combinations_
              ELSE error' = "none" /\ getNumDimensions' = d]_vars

\* C19 witness: MultiVectorDEG::setNumDimensions threw on an instance of the
\* largest valid dimensionality, which the instance still has
C19_Witness ==
    /\ object = "DEG"
    /\ called = "MultiVectorDEG::setNumDimensions"
    /\ error = "invalid_argument"
    /\ getNumDimensions = 8
    /\ weight_combinations_ = GeneratedFor(8)

\* ----------------------------------- float: the IEEE-754 binary32 values
\* A float x is modelled by the integer x * 2^27. Every float that
\* generateWeightCombinations computes is such an integer: its values are 0
\* or at least 0.0625 in magnitude, where the spacing of binary32 is 2^-27 or
\* coarser, or differences of such values. -0.0f and 0.0f, which compare
\* equal, are both 0.
FloatOne == 2^27    \* 1.0f

\* the spacing of binary32 at a magnitude of a units (24-bit significand)
RECURSIVE Ulp(_)
Ulp(a) == IF a < 2^24 THEN 1 ELSE 2 * Ulp(a \div 2)

\* round-to-nearest, ties-to-even, of num/den (num >= 0) to a multiple of u
RoundRat(num, den, u) ==
    LET q == num \div (den * u)
        r == num % (den * u)
    IN IF 2 * r < den * u THEN q * u
       ELSE IF 2 * r > den * u THEN (q + 1) * u
       ELSE IF q % 2 = 0 THEN q * u ELSE (q + 1) * u

\* the float nearest to the exact result n of an operation on floats
FRound(n) ==
    IF n >= 0 THEN RoundRat(n, 1, Ulp(n)) ELSE 0 - RoundRat(0 - n, 1, Ulp(0 - n))

FAdd(a, b) == FRound(a + b)     \* a + b
FSub(a, b) == FRound(a - b)     \* a - b
FMul10(a) == FRound(a * 10)     \* a * 10.0f

\* a / 10.0f
FDiv10(a) ==
    IF a >= 0 THEN RoundRat(a, 10, Ulp(a \div 10))
    ELSE 0 - RoundRat(0 - a, 10, Ulp((0 - a) \div 10))

\* std::round(a): the nearest integer, halfway cases away from zero
StdRound(a) ==
    IF a >= 0 THEN ((a + FloatOne \div 2) \div FloatOne) * FloatOne
    ELSE 0 - (((0 - a) + FloatOne \div 2) \div FloatOne) * FloatOne

\* constexpr float WEIGHT_STEP = 0.1f
WEIGHT_STEP == FDiv10(FloatOne)

\* the literal 1.001f
Literal_1_001 == FloatOne + RoundRat(FloatOne, 1000, Ulp(FloatOne))

\* the literal 0.001f is 8589935 * 2^-33, that is Literal_0_001_x64 / 64 units
Literal_0_001_x64 == 8589935

\* a >= -0.001f and a >= min_needed - 0.001f with min_needed = 0.0f: a is a
\* whole number of units and 0.001f is not
GeMinusTol(a) == a >= 0 - (Literal_0_001_x64 \div 64)

\* max_possible + 0.001f for the float max_possible >= 1.0f
PlusTol(max_possible) ==
    max_possible + RoundRat(Literal_0_001_x64, 64, Ulp(max_possible))

\* std::vector<float>::operator< : lexicographic
RECURSIVE VecLessFrom(_, _, _)
VecLessFrom(a, b, i) ==
    IF i > Len(a) THEN i <= Len(b)
    ELSE IF i > Len(b) THEN FALSE
    ELSE IF a[i] < b[i] THEN TRUE
    ELSE IF b[i] < a[i] THEN FALSE
    ELSE VecLessFrom(a, b, i + 1)

VecLess(a, b) == VecLessFrom(a, b, 1)

\* std::sort(result) then result.erase(std::unique(result), end): the
\* distinct elements in increasing order, each at the place given by the
\* number of elements below it
SortedFrom(S) ==
    LET below == [x \in S |-> Cardinality({y \in S : VecLess(y, x)})]
    IN [i \in 1..Cardinality(S) |-> CHOOSE x \in S : below[x] = i - 1]

SortUnique(result) == SortedFrom({result[k] : k \in 1..Len(result)})

\* ----------------------------------------- generateWeightCombinations
\* the arguments a caller passes
GwcArgs == {0, 1, 2, 3, 4}

\* a call of backtrack(dim, current_sum, remaining) at the head of its loop
Frame(dim, current_sum, remaining) ==
    [dim |-> dim, current_sum |-> current_sum, remaining |-> remaining, w |-> 0]

\* the top frame of the running call
Top(g) == g.frames[Len(g.frames)]

\* the return of the top call of backtrack: its caller, after the recursive
\* call, does current.pop_back() and w += WEIGHT_STEP; the return of
\* backtrack(0, 0.0f, 1.0f) is followed by the sort, the erase of the
\* duplicates and the return of result
BacktrackReturn(g) ==
    LET rest == SubSeq(g.frames, 1, Len(g.frames) - 1)
    IN IF rest = <<>>
       THEN [g EXCEPT !.state = "returned", !.frames = <<>>,
                      !.result = SortUnique(g.result)]
       ELSE [g EXCEPT !.frames = [rest EXCEPT ![Len(rest)].w = FAdd(@, WEIGHT_STEP)],
                      !.current = SubSeq(g.current, 1, Len(g.current) - 1)]

\* mutant of ForCondition: the loop stops before w reaches 1
ForConditionBelowOne(w, current_sum) ==
    w < FloatOne /\ FAdd(current_sum, w) <= Literal_1_001

\* the condition of the for loop: w <= 1.001f && current_sum + w <= 1.001f
ForCondition(w, current_sum) ==
    w <= Literal_1_001 /\ FAdd(current_sum, w) <= Literal_1_001

\* the entry of generateWeightCombinations up to the call of backtrack
generateWeightCombinations_enter ==
    /\ gwc.state = "called"
    /\ gwc' = IF gwc.num_dimensions = 0
              THEN [gwc EXCEPT !.state = "returned"]
              ELSE IF gwc.num_dimensions = 1
              THEN [gwc EXCEPT !.state = "returned", !.result = << <<FloatOne>> >>]
              ELSE [gwc EXCEPT !.state = "running",
                               !.frames = <<Frame(0, 0, FloatOne)>>]
    /\ UNCHANGED <<pool_, outlier_, num_layer_, num_dimensions_, M_, called, error,
                   fsVars, mtVars, caller_points, degVars, auxVars>>

\* backtrack at dim == num_dimensions - 1: the last weight fills the rest
backtrack_last ==
    /\ gwc.state = "running"
    /\ Top(gwc).dim = gwc.num_dimensions - 1
    /\ LET last_weight == FSub(FloatOne, Top(gwc).current_sum)
           rounded == FDiv10(StdRound(FMul10(last_weight)))
           pushed == IF /\ GeMinusTol(last_weight) /\ last_weight <= Literal_1_001
                        /\ GeMinusTol(rounded) /\ rounded <= Literal_1_001
                     THEN [gwc EXCEPT !.result = Append(@, Append(gwc.current, rounded))]
                     ELSE gwc
       IN gwc' = BacktrackReturn(pushed)
    /\ UNCHANGED <<pool_, outlier_, num_layer_, num_dimensions_, M_, called, error,
                   fsVars, mtVars, caller_points, degVars, auxVars>>

\* one pass of the for loop of backtrack, up to the recursive call
backtrack_for ==
    /\ gwc.state = "running"
    /\ Top(gwc).dim # gwc.num_dimensions - 1
    /\ ForCondition(Top(gwc).w, Top(gwc).current_sum)
    /\ LET top == Top(gwc)
           rounded_w == FDiv10(StdRound(FMul10(top.w)))
           max_possible == (gwc.num_dimensions - top.dim - 1) * FloatOne
           remaining_needed == FSub(FloatOne, FAdd(top.current_sum, rounded_w))
       IN gwc' = IF /\ GeMinusTol(remaining_needed)
                    /\ remaining_needed <= PlusTol(max_possible)
                 THEN [gwc EXCEPT !.current = Append(@, rounded_w),
                                  !.frames = Append(@, Frame(top.dim + 1,
                                                 FAdd(top.current_sum, rounded_w),
                                                 remaining_needed))]
                 ELSE [gwc EXCEPT !.frames[Len(gwc.frames)].w = FAdd(@, WEIGHT_STEP)]
    /\ UNCHANGED <<pool_, outlier_, num_layer_, num_dimensions_, M_, called, error,
                   fsVars, mtVars, caller_points, degVars, auxVars>>

\* the end of the for loop of backtrack
backtrack_end ==
    /\ gwc.state = "running"
    /\ Top(gwc).dim # gwc.num_dimensions - 1
    /\ ~ForCondition(Top(gwc).w, Top(gwc).current_sum)
    /\ gwc' = BacktrackReturn(gwc)
    /\ UNCHANGED <<pool_, outlier_, num_layer_, num_dimensions_, M_, called, error,
                   fsVars, mtVars, caller_points, degVars, auxVars>>

\* a call generateWeightCombinations(num_dimensions)
InitGwc ==
    /\ pool_ = <<>>
    /\ outlier_ = <<>>
    /\ num_layer_ = 0
    /\ num_dimensions_ = 0
    /\ M_ = 0
    /\ called = "none"
    /\ error = "none"
    /\ fs_points = <<>>
    /\ fs_skyline = <<>>
    /\ fs_remain = <<>>
    /\ fs_state = "idle"
    /\ lock_ = 0
    /\ pc = [t \in Threads |-> "call"]
    /\ points_ = [t \in Threads |-> <<>>]
    /\ l_ = [t \in Threads |-> 0]
    /\ caller_points = <<>>
    /\ object = "none"
    /\ weight_combinations_ = <<>>
    /\ auxInit
    /\ \E num_dimensions \in GwcArgs :
          gwc = [state |-> "called", num_dimensions |-> num_dimensions,
                 result |-> <<>>, current |-> <<>>, frames |-> <<>>]

NextGwc ==
    \/ generateWeightCombinations_enter
    \/ backtrack_last
    \/ backtrack_for
    \/ backtrack_end

SpecGwc == InitGwc /\ [][NextGwc]_vars

\* ------------------------------------------------------------ claim C20
Abs(n) == IF n < 0 THEN 0 - n ELSE n

RECURSIVE Binomial(_, _)
Binomial(n, k) ==
    IF k = 0 THEN 1 ELSE IF n = 0 THEN 0
    ELSE Binomial(n - 1, k - 1) + Binomial(n - 1, k)

RECURSIVE SumTo(_, _)
SumTo(t, n) == IF n = 0 THEN 0 ELSE t[n] + SumTo(t, n - 1)

\* the d-tuples of tenths k/10, 0 <= k <= 10, that sum to 1, as their
\* numerators
Tenths(d) == {t \in [1..d -> 0..10] : SumTo(t, d) = 10}

\* the float c is the float nearest to k/10: within half its spacing of it
IsTenth(c, k) == Abs(10 * c - k * FloatOne) <= 5 * Ulp(Abs(c))

IsTenthsTuple(v, t) ==
    /\ Len(v) = Len(t)
    /\ \A i \in 1..Len(v) : IsTenth(v[i], t[i])

\* C20: generateWeightCombinations(d) returns, without duplicates, exactly
\* the d-tuples whose components are multiples of 0.1 in [0,1] (as floats:
\* the float nearest to k/10) and sum to 1: nothing for d = 0, the single
\* tuple (1.0) for d = 1, and C(10+d-1, d-1) tuples for d >= 2, which is 11
\* for d = 2, 66 for d = 3 and 286 for d = 4.
C20_WeightCombinationsAreTheTenthsSimplex ==
    gwc.state = "returned" =>
        LET d == gwc.num_dimensions
            result == gwc.result
            tenths == Tenths(d)
        IN /\ \A i, j \in 1..Len(result) : i < j => result[i] # result[j]
           /\ \A i \in 1..Len(result) : \E t \in tenths : IsTenthsTuple(result[i], t)
           /\ \A t \in tenths : \E i \in 1..Len(result) : IsTenthsTuple(result[i], t)
           /\ d = 0 => result = <<>>
           /\ d = 1 => result = << <<FloatOne>> >>
           /\ d >= 2 => Len(result) = Binomial(10 + d - 1, d - 1)
           /\ d = 2 => Len(result) = 11
           /\ d = 3 => Len(result) = 66
           /\ d = 4 => Len(result) = 286

\* generateWeightCombinations(4) has returned its 286 tuples
C20_Witness ==
    /\ gwc.state = "returned"
    /\ gwc.num_dimensions = 4
    /\ Len(gwc.result) = 286

\* ------------------------------------ SpecIdx: MultiVectorDEG::getWeightIndex
\* SIZE_MAX, the largest size_t, as the largest integer of the model
SIZE_MAX == 2147483647

\* std::round(w * 10.0f) / 10.0f
RoundedWeight(w) == FDiv10(StdRound(FMul10(w)))

\* std::abs(c - r) > 0.001f
Differs(c, r) == Abs(FSub(c, r)) > Literal_0_001_x64 \div 64

\* mutant of getWeightIndexOf: the count is returned when nothing matches
getWeightIndexOfCount(weights) ==
    IF Len(weights) # num_dimensions_ THEN SIZE_MAX
    ELSE LET rounded_weights == [j \in 1..Len(weights) |-> RoundedWeight(weights[j])]
             match == {i \in 1..Len(weight_combinations_) :
                          \A j \in 1..num_dimensions_ :
                              ~Differs(weight_combinations_[i][j], rounded_weights[j])}
         IN IF match = {} THEN Len(weight_combinations_)
            ELSE (CHOOSE i \in match : \A k \in match : i <= k) - 1

\* MultiVectorDEG::getWeightIndex(weights)
getWeightIndexOf(weights) ==
    IF Len(weights) # num_dimensions_ THEN SIZE_MAX
    ELSE LET rounded_weights == [j \in 1..Len(weights) |-> RoundedWeight(weights[j])]
             match == {i \in 1..Len(weight_combinations_) :
                          \A j \in 1..num_dimensions_ :
                              ~Differs(weight_combinations_[i][j], rounded_weights[j])}
         IN IF match = {} THEN SIZE_MAX
            ELSE (CHOOSE i \in match : \A k \in match : i <= k) - 1

IdxDims == {1, 2, 3}    \* the dimensionalities of the instances

\* the floats of the weight vectors a caller passes beside the stored
\* combinations: 0, 0.04 (cut to a whole unit), 0.5 and 1
ProbeFloats == {0, FloatOne \div 25, FloatOne \div 2, FloatOne}

IdxArgs ==
    {weight_combinations_[i] : i \in 1..Len(weight_combinations_)}
        \cup SeqsUpTo(ProbeFloats, num_dimensions_ + 1)

\* initializeWeightCombinations, after generateWeightCombinations returned:
\* the end of the constructor
initializeWeightCombinations_return ==
    /\ object = "none"
    /\ gwc.state = "returned"
    /\ weight_combinations_' = gwc.result
    /\ object' = "DEG"
    /\ gwc' = gwcIdle
    /\ UNCHANGED <<pool_, outlier_, num_layer_, num_dimensions_, M_, called, error,
                   fsVars, mtVars, caller_points, auxVars>>

getWeightIndex(weights) ==
    /\ object = "DEG"
    /\ called' = "getWeightIndex"
    /\ error' = "none"
    /\ arg' = weights
    /\ ret' = getWeightIndexOf(weights)
    /\ UNCHANGED <<pool_, outlier_, num_layer_, num_dimensions_, M_, neighbor,
                   fsVars, mtVars, caller_points, degVars, gwcVars>>

\* MultiVectorDEG(m, s, q, num_dimensions) at its call of
\* initializeWeightCombinations
InitIdx ==
    /\ pool_ = <<>>
    /\ outlier_ = <<>>
    /\ num_layer_ = 0
    /\ num_dimensions_ \in IdxDims
    /\ M_ = 0
    /\ called = "none"
    /\ error = "none"
    /\ fs_points = <<>>
    /\ fs_skyline = <<>>
    /\ fs_remain = <<>>
    /\ fs_state = "idle"
    /\ lock_ = 0
    /\ pc = [t \in Threads |-> "call"]
    /\ points_ = [t \in Threads |-> <<>>]
    /\ l_ = [t \in Threads |-> 0]
    /\ caller_points = <<>>
    /\ object = "none"
    /\ weight_combinations_ = <<>>
    /\ auxInit
    /\ gwc = [state |-> "called", num_dimensions |-> num_dimensions_,
              result |-> <<>>, current |-> <<>>, frames |-> <<>>]

NextIdx ==
    \/ generateWeightCombinations_enter
    \/ backtrack_last
    \/ backtrack_for
    \/ backtrack_end
    \/ initializeWeightCombinations_return
    \/ \E weights \in IdxArgs : getWeightIndex(weights)

SpecIdx == InitIdx /\ [][NextIdx]_vars

\* ------------------------------------------------------------ claim C21
\* the numerator k of the tenth k/10 nearest to the number v >= 0
NearestTenth(v) == (10 * v + FloatOne \div 2) \div FloatOne

\* the rounded value of weights is combination i
RoundsTo(weights, i) ==
    \A j \in 1..Len(weights) :
        IsTenth(weight_combinations_[i][j], NearestTenth(weights[j]))

\* C21: getWeightIndex round-trips on the lattice: for every index i in
\* [0, K) the index of combination i is i; for a vector whose length differs
\* from d or whose rounded value matches no combination it returns SIZE_MAX;
\* it never raises an error and never returns a value in [K, SIZE_MAX).
C21_WeightIndexRoundTrip ==
    called = "getWeightIndex" =>
        LET K == Len(weight_combinations_)
        IN /\ error = "none"
           /\ ret = SIZE_MAX \/ ret \in 0..(K - 1)
           /\ \A i \in 1..K : arg = weight_combinations_[i] => ret = i - 1
           /\ Len(arg) # num_dimensions_ => ret = SIZE_MAX
           /\ (/\ Len(arg) = num_dimensions_
               /\ \A i \in 1..K : ~RoundsTo(arg, i)) => ret = SIZE_MAX

\* the last of the 66 combinations of d = 3 was looked up and found at 65
C21_Witness ==
    /\ called = "getWeightIndex"
    /\ num_dimensions_ = 3
    /\ arg = weight_combinations_[66]
    /\ ret = 65

\* getWeightIndex({0.5, 0.5, 0.5}) returned SIZE_MAX
C21_WitnessNotFound ==
    /\ called = "getWeightIndex"
    /\ arg = <<FloatOne \div 2, FloatOne \div 2, FloatOne \div 2>>
    /\ num_dimensions_ = 3
    /\ ret = SIZE_MAX

\* --------------------------- SpecBits: the pruning bitmap of a neighbour
\* A uint64_t word of the bitmap is the set of the positions 0..63 of its
\* bits that are 1.

\* mutant of NewNeighbor: the words are filled with ones
NewNeighborAllSet(num_weight_combinations) ==
    [num_weight_combinations_ |-> num_weight_combinations,
     pruning_bitmap_ |-> [w \in 1..((num_weight_combinations + 63) \div 64) |-> 0..63]]

\* MultiVectorDEGNeighbor(id, distances, num_weight_combinations, f, layer):
\* the members the pruning accessors use
NewNeighbor(num_weight_combinations) ==
    [num_weight_combinations_ |-> num_weight_combinations,
     pruning_bitmap_ |-> [w \in 1..((num_weight_combinations + 63) \div 64) |-> {}]]

\* mutant of WithBit: the whole word is cleared
WithBitWordCleared(word, bit_idx, pruned) ==
    IF pruned THEN word \cup {bit_idx} ELSE {}

\* word |= (1ULL << bit_idx), word &= ~(1ULL << bit_idx)
WithBit(word, bit_idx, pruned) ==
    IF pruned THEN word \cup {bit_idx} ELSE word \ {bit_idx}

\* MultiVectorDEGNeighbor::setPruned(weight_idx, pruned) on n
setPrunedOf(n, weight_idx, pruned) ==
    IF weight_idx >= n.num_weight_combinations_
    THEN [thrown |-> "out_of_range", n |-> n]
    ELSE LET uint64_idx == weight_idx \div 64
             bit_idx == weight_idx % 64
         IN [thrown |-> "none",
             n |-> [n EXCEPT !.pruning_bitmap_[uint64_idx + 1] =
                                 WithBit(@, bit_idx, pruned)]]

\* MultiVectorDEGNeighbor::isPruned(weight_idx) on n
isPrunedOf(n, weight_idx) ==
    IF weight_idx >= n.num_weight_combinations_
    THEN [thrown |-> "out_of_range", value |-> FALSE]
    ELSE LET uint64_idx == weight_idx \div 64
             bit_idx == weight_idx % 64
         IN [thrown |-> "none",
             value |-> bit_idx \in n.pruning_bitmap_[uint64_idx + 1]]

\* MultiVectorDEG::num_weight_combinations_
num_weight_combinations_ == Len(weight_combinations_)

BitsDims == {2, 3}              \* the dimensionalities of the instance
NbCounts == {0, 11, 65, 66}     \* the counts a caller constructs neighbours with
PruneIdx == {0, 10, 11, 63, 64, 65, 66}   \* the weight indices a caller passes

\* The caller is one thread: it constructs and uses its neighbour when no
\* other call of it is running.
MultiVectorDEGNeighbor(num_weight_combinations) ==
    /\ gwc = gwcIdle
    /\ neighbor = <<>>
    /\ neighbor' = <<NewNeighbor(num_weight_combinations)>>
    /\ called' = "MultiVectorDEGNeighbor"
    /\ error' = "none"
    /\ arg' = [num_weight_combinations |-> num_weight_combinations]
    /\ ret' = "none"
    /\ UNCHANGED <<pool_, outlier_, num_layer_, num_dimensions_, M_,
                   fsVars, mtVars, caller_points, degVars, gwcVars>>

setPruned(weight_idx, pruned) ==
    /\ gwc = gwcIdle
    /\ neighbor # <<>>
    /\ LET r == setPrunedOf(neighbor[1], weight_idx, pruned)
       IN /\ neighbor' = <<r.n>>
          /\ error' = r.thrown
    /\ called' = "setPruned"
    /\ arg' = [weight_idx |-> weight_idx, pruned |-> pruned]
    /\ ret' = "none"
    /\ UNCHANGED <<pool_, outlier_, num_layer_, num_dimensions_, M_,
                   fsVars, mtVars, caller_points, degVars, gwcVars>>

isPruned(weight_idx) ==
    /\ gwc = gwcIdle
    /\ neighbor # <<>>
    /\ LET r == isPrunedOf(neighbor[1], weight_idx)
       IN /\ ret' = IF r.thrown = "none" THEN r.value ELSE "none"
          /\ error' = r.thrown
    /\ called' = "isPruned"
    /\ arg' = [weight_idx |-> weight_idx]
    /\ UNCHANGED <<pool_, outlier_, num_layer_, num_dimensions_, M_, neighbor,
                   fsVars, mtVars, caller_points, degVars, gwcVars>>

\* MultiVectorDEG::calculatePruningStatus(neighbor, weight_idx)
calculatePruningStatus(weight_idx) ==
    /\ object = "DEG"
    /\ neighbor # <<>>
    /\ LET r == IF \/ weight_idx >= num_weight_combinations_
                   \/ weight_idx >= Len(weight_combinations_)
                THEN [thrown |-> "none", value |-> FALSE]
                ELSE isPrunedOf(neighbor[1], weight_idx)
       IN /\ ret' = IF r.thrown = "none" THEN r.value ELSE "none"
          /\ error' = r.thrown
    /\ called' = "calculatePruningStatus"
    /\ arg' = [weight_idx |-> weight_idx]
    /\ UNCHANGED <<pool_, outlier_, num_layer_, num_dimensions_, M_, neighbor,
                   fsVars, mtVars, caller_points, degVars, gwcVars>>

\* MultiVectorDEG::setPruningStatus(neighbor, weight_idx, pruned)
setPruningStatus(weight_idx, pruned) ==
    /\ object = "DEG"
    /\ neighbor # <<>>
    /\ LET r == IF weight_idx >= num_weight_combinations_
                THEN [thrown |-> "out_of_range", n |-> neighbor[1]]
                ELSE setPrunedOf(neighbor[1], weight_idx, pruned)
       IN /\ neighbor' = <<r.n>>
          /\ error' = r.thrown
    /\ called' = "setPruningStatus"
    /\ arg' = [weight_idx |-> weight_idx, pruned |-> pruned]
    /\ ret' = "none"
    /\ UNCHANGED <<pool_, outlier_, num_layer_, num_dimensions_, M_,
                   fsVars, mtVars, caller_points, degVars, gwcVars>>

\* MultiVectorDEG(m, s, q, num_dimensions) at its call of
\* initializeWeightCombinations
InitBits ==
    /\ pool_ = <<>>
    /\ outlier_ = <<>>
    /\ num_layer_ = 0
    /\ num_dimensions_ \in BitsDims
    /\ M_ = 0
    /\ called = "none"
    /\ error = "none"
    /\ fs_points = <<>>
    /\ fs_skyline = <<>>
    /\ fs_remain = <<>>
    /\ fs_state = "idle"
    /\ lock_ = 0
    /\ pc = [t \in Threads |-> "call"]
    /\ points_ = [t \in Threads |-> <<>>]
    /\ l_ = [t \in Threads |-> 0]
    /\ caller_points = <<>>
    /\ object = "none"
    /\ weight_combinations_ = <<>>
    /\ auxInit
    /\ gwc = [state |-> "called", num_dimensions |-> num_dimensions_,
              result |-> <<>>, current |-> <<>>, frames |-> <<>>]

NextBits ==
    \/ generateWeightCombinations_enter
    \/ backtrack_last
    \/ backtrack_for
    \/ backtrack_end
    \/ initializeWeightCombinations_return
    \/ \E num_weight_combinations \in NbCounts :
          MultiVectorDEGNeighbor(num_weight_combinations)
    \/ \E weight_idx \in PruneIdx, pruned \in BOOLEAN : setPruned(weight_idx, pruned)
    \/ \E weight_idx \in PruneIdx : isPruned(weight_idx)
    \/ \E weight_idx \in PruneIdx : calculatePruningStatus(weight_idx)
    \/ \E weight_idx \in PruneIdx, pruned \in BOOLEAN :
          setPruningStatus(weight_idx, pruned)

SpecBits == InitBits /\ [][NextBits]_vars

\* ------------------------------------------------------------ claim C22
\* what isPruned(j) returns on n for an in-range j
BitOf(n, j) == isPrunedOf(n, j).value

\* C22: for every point p and every in-range index i, setPruned(p, i, true)
\* makes getPruned(p, i) true and setPruned(p, i, false) makes it false, and
\* in both cases the bit at every index j # i, in the same 64-bit word and
\* in the other words, keeps its prior value.
C22_SetPrunedSetsOneBit ==
    [][(called' = "setPruned" /\ error' = "none") =>
          LET i == arg'.weight_idx
              K == neighbor[1].num_weight_combinations_
          IN /\ BitOf(neighbor'[1], i) = arg'.pruned
             /\ \A j \in (0..(K - 1)) \ {i} :
                   BitOf(neighbor'[1], j) = BitOf(neighbor[1], j)]_vars

\* setPruned(63, false) has returned on a neighbour whose bits 0 (same word)
\* and 64 (next word) are set
C22_Witness ==
    /\ called = "setPruned"
    /\ error = "none"
    /\ arg = [weight_idx |-> 63, pruned |-> FALSE]
    /\ neighbor[1].pruning_bitmap_ = <<{0}, {0}>>

\* ------------------------------------------------------------ claim C23
\* C23: both pruning accessors of the weighted pool are bounds-checked:
\* calculatePruningStatus and setPruningStatus called with weight_idx >= the
\* combination count each fail with an out-of-range error, and the failing
\* setPruningStatus changes no bit.
C23_PruningAccessorsBoundsChecked ==
    [][(/\ called' \in {"calculatePruningStatus", "setPruningStatus"}
        /\ arg'.weight_idx >= Len(weight_combinations_))
          => (error' = "out_of_range" /\ neighbor' = neighbor)]_vars

\* the part of C23 that is about setPruningStatus
C23_SetPruningStatusBoundsChecked ==
    [][(/\ called' = "setPruningStatus"
        /\ arg'.weight_idx >= Len(weight_combinations_))
          => (error' = "out_of_range" /\ neighbor' = neighbor)]_vars

\* ------------------------------------------------------------ claim C24
\* C24: a weighted point constructed with combination count K has
\* ceil(K/64) bitmap words and every bit in [0, K) clear: getPruned returns
\* false for every in-range index until some setPruned(..., true) targets
\* that index.
C24_BitmapStartsClear ==
    [][/\ called' = "MultiVectorDEGNeighbor" =>
            LET K == arg'.num_weight_combinations
                n == Len(neighbor'[1].pruning_bitmap_)
            IN /\ neighbor = <<>>
               /\ 64 * n >= K
               /\ 64 * (n - 1) < K
               /\ \A j \in 0..(K - 1) : ~BitOf(neighbor'[1], j)
       /\ (neighbor # <<>> /\ neighbor' # <<>>) =>
            \A j \in 0..(neighbor[1].num_weight_combinations_ - 1) :
                (~BitOf(neighbor[1], j) /\ BitOf(neighbor'[1], j)) =>
                    /\ called' \in {"setPruned", "setPruningStatus"}
                    /\ arg' = [weight_idx |-> j, pruned |-> TRUE]]_vars

\* a neighbour with 65 combinations, two words, has bit 64 set by
\* setPruned(64, true) and its other bits still clear
C24_Witness ==
    /\ called = "setPruned"
    /\ arg = [weight_idx |-> 64, pruned |-> TRUE]
    /\ neighbor[1].num_weight_combinations_ = 65
    /\ neighbor[1].pruning_bitmap_ = <<{}, {0}>>

\* ------------------------------------------------------------ claim C25
\* the dominance test of findSkyline on the points x and y of its input
FsDominates(x, y) == DomLoop(fs_points[x], fs_points[y], 1, num_dimensions_, FALSE)

\* C25: the dominance relation used by findSkyline (a[i] <= b[i] in every
\* dimension and a[i] < b[i] in at least one) is a strict partial order on
\* equal-length vectors: dominates(p, p) is false for all p, dominates(a, b)
\* implies not dominates(b, a), and dominates(a, b) and dominates(b, c)
\* imply dominates(a, c).
C25_DominanceStrictPartialOrder ==
    fs_state = "returned" =>
        \A x, y, z \in 1..Len(fs_points) :
            /\ FsDominates(x, y) = Dominates(fs_points[x].distances_, fs_points[y].distances_)
            /\ ~FsDominates(x, x)
            /\ FsDominates(x, y) => ~FsDominates(y, x)
            /\ (FsDominates(x, y) /\ FsDominates(y, z)) => FsDominates(x, z)

\* findSkyline ran on three points of which the first dominates the second
\* and the second the third
C25_Witness ==
    /\ fs_state = "returned"
    /\ Len(fs_points) = 3
    /\ FsDominates(1, 2)
    /\ FsDominates(2, 3)

\* ------------------------------------ SpecPeel: the two peeling loops
PeelCaps == {0, 2}    \* the capacities M_ of the instance

\* a newly constructed instance and the points its caller has built
InitPeel ==
    /\ pool_ = <<>>
    /\ outlier_ = <<>>
    /\ num_layer_ = 0
    /\ num_dimensions_ \in Dims
    /\ M_ \in PeelCaps
    /\ called = "none"
    /\ error = "none"
    /\ fs_points = <<>>
    /\ fs_skyline = <<>>
    /\ fs_remain = <<>>
    /\ fs_state = "idle"
    /\ lock_ = 0
    /\ pc = [t \in Threads |-> "call"]
    /\ points_ = [t \in Threads |-> <<>>]
    /\ l_ = [t \in Threads |-> 0]
    /\ caller_points \in SeqsUpTo(InitPoints, MaxInit)
    /\ object = "GPS"
    /\ weight_combinations_ = <<>>
    /\ gwc = gwcIdle
    /\ auxInit

\* thread 1 calls initNeighbor on the caller's points and then
\* updateNeighbor, and runs each call to its end
NextPeel ==
    \/ called = "none" /\ lock_guard(1, "initNeighbor", caller_points)
    \/ initNeighbor_pass(1)
    \/ called = "initNeighbor" /\ lock_guard(1, "updateNeighbor", <<>>)
    \/ updateNeighbor_swap(1)
    \/ updateNeighbor_pass(1)
    \/ unlock(1)

\* a thread that has entered an operation keeps running: the operations
\* are CPU-bound and wait for nothing once they hold lock_; nothing makes
\* the thread call an operation
SpecPeel == InitPeel /\ [][NextPeel]_vars /\ WF_vars(ThreadStep(1))

\* ------------------------------------------------------------ claim C26
\* thread t is in the peeling loop of initNeighbor or updateNeighbor
InLoop(t) == pc[t] \in {"initNeighbor", "updateNeighbor_loop"}

\* C26: initNeighbor and updateNeighbor always run to completion on a finite
\* input: every peeling pass over a non-empty candidate set yields a
\* non-empty frontier, so the remainder strictly shrinks; the loop, which
\* starts at l = 0, ends after at most n passes for n points (each pass
\* adds one to l and takes at least one point); and lock_ is released at
\* the end, also when the operation ends with an error.
C26_PeelingTerminates ==
    /\ [][\A t \in Threads :
            /\ (InLoop(t) /\ InLoop(t)' /\ points_[t] # <<>>) =>
                  /\ outlier_' # <<>>
                  /\ Len(points_'[t]) < Len(points_[t])
                  /\ l_'[t] = l_[t] + 1
            /\ (~InLoop(t) /\ InLoop(t)') => l_'[t] = 0]_vars
    /\ \A t \in Threads : (lock_ = t) ~> (lock_ = 0)

\* updateNeighbor has made two passes over three points in three layers and
\* ended with one candidate left and lock_ free
C26_Witness ==
    /\ called = "updateNeighbor"
    /\ error = "none"
    /\ num_layer_ = 2
    /\ Len(caller_points) = 3
    /\ Len(pool_) = 2
    /\ lock_ = 0

\* initNeighbor has ended with an error and lock_ is free
C26_WitnessError ==
    /\ called = "initNeighbor"
    /\ error = "invalid_argument"
    /\ lock_ = 0

\* ------------------------------------------------------------ claim C27
\* C27: a successful insert(id, distances) of a new id appends exactly one
\* point to outlier_, with layer 0 and flag = true, and triggers no
\* re-layering: pool_ (contents, order and layers) and num_layer_ are
\* unchanged, and every other entry of outlier_ is unchanged.
C27_InsertAppendsOneOutlier ==
    [][\A id \in Ids, distances \in AllVectors :
          (/\ insert(id, distances)
           /\ error' = "none"
           /\ \A k \in 1..Len(pool_) : pool_[k].id_ # id
           /\ \A k \in 1..Len(outlier_) : outlier_[k].id_ # id)
          => /\ Len(outlier_') = Len(outlier_) + 1
             /\ SubSeq(outlier_', 1, Len(outlier_)) = outlier_
             /\ outlier_'[Len(outlier_')] =
                    [id_ |-> id, distances_ |-> distances, flag |-> TRUE, layer_ |-> 0]
             /\ pool_' = pool_
             /\ num_layer_' = num_layer_]_vars

\* insert has added a second entry to outlier_ of an instance whose pool_
\* holds a point
C27_Witness ==
    /\ called = "insert"
    /\ error = "none"
    /\ Len(pool_) >= 1
    /\ Len(outlier_) = 2
    /\ outlier_[1].id_ # outlier_[2].id_
    /\ \A k \in 1..Len(pool_) : pool_[k].id_ # outlier_[2].id_

\* ---------------------------------- SpecQueue: MultiVectorSkylineQueue
\* The queue has the members pool_, M_, num_layer_ and num_dimensions_ and
\* no outlier_ and no lock_.

\* mutant of initQueueOf: the layers are counted from 1
initQueueOfFromOne(insert_points, pool, d) == InitLoop(insert_points, pool, <<>>, 1, d)

\* initQueue(insert_points) on the pool: the loop of initNeighbor without
\* outlier_, and no sort after it
initQueueOf(insert_points, pool, d) == InitLoop(insert_points, pool, <<>>, 0, d)

\* mutant of NkScan: nk is set one too far
RECURSIVE NkScanOffByOne(_, _, _, _, _)
NkScanOffByOne(skyline_result, i, k, updated, nk) ==
    IF i > Len(skyline_result)
    THEN [k |-> k, updated |-> updated, nk |-> nk]
    ELSE IF updated
         THEN IF skyline_result[i].flag
              THEN NkScanOffByOne(skyline_result, i + 1, k + 1, FALSE, k + 1)
              ELSE NkScanOffByOne(skyline_result, i + 1, k + 2, updated, nk)
         ELSE NkScanOffByOne(skyline_result, i + 1, k + 1, updated, nk)

\* the for loop of updateNeighbor(nk) over one frontier, from its element
\* i: what it does to k, updated and nk
RECURSIVE NkScan(_, _, _, _, _)
NkScan(skyline_result, i, k, updated, nk) ==
    IF i > Len(skyline_result)
    THEN [k |-> k, updated |-> updated, nk |-> nk]
    ELSE IF updated
         THEN IF skyline_result[i].flag
              THEN NkScan(skyline_result, i + 1, k + 1, FALSE, k)
              ELSE NkScan(skyline_result, i + 1, k + 2, updated, nk)
         ELSE NkScan(skyline_result, i + 1, k + 1, updated, nk)

\* the while loop of updateNeighbor(nk) from one of its loop heads
RECURSIVE QueueUpdateLoop(_, _, _, _, _, _, _, _)
QueueUpdateLoop(candidate, pool, l, k, updated, nk, m, d) ==
    IF ~(Len(pool) < m /\ Len(candidate) > 0)
    THEN [thrown |-> FALSE, pool |-> pool, l |-> l, nk |-> nk]
    ELSE LET r == FindSkyline(candidate, <<>>, <<>>, d)
             s == NkScan(r.skyline, 1, k, updated, nk)
         IN IF r.thrown
            THEN [thrown |-> TRUE, pool |-> pool, l |-> l, nk |-> nk]
            ELSE QueueUpdateLoop(r.remain_points, pool \o UpdateEmplace(r.skyline, l),
                                 l + 1, s.k, s.updated, s.nk, m, d)

QueueCaps == {0, 1, 3}   \* the capacities M_ of the queue
NkBefore == {0 - 1, 7}   \* the values of the caller's nk before the call

\* MultiVectorSkylineQueue::initQueue(insert_points)
initQueue(insert_points) ==
    /\ object = "Queue"
    /\ LET r == initQueueOf(insert_points, pool_, num_dimensions_)
       IN /\ pool_' = r.pool
          /\ num_layer_' = IF r.thrown THEN num_layer_ ELSE r.l
          /\ error' = IF r.thrown THEN "invalid_argument" ELSE "none"
    /\ called' = "initQueue"
    /\ UNCHANGED <<outlier_, num_dimensions_, M_, fsVars, mtVars, caller_points,
                   degVars, gwcVars, auxVars>>

\* int nk = nk0; MultiVectorSkylineQueue::updateNeighbor(nk)
Queue_updateNeighbor(nk0) ==
    /\ object = "Queue"
    /\ \E candidate \in SortResults(pool_) :
          LET r == QueueUpdateLoop(candidate, <<>>, 0, 0, TRUE, nk0, M_, num_dimensions_)
          IN /\ pool_' = r.pool
             /\ num_layer_' = IF r.thrown THEN num_layer_ ELSE r.l
             /\ error' = IF r.thrown THEN "invalid_argument" ELSE "none"
             /\ ret' = r.nk
    /\ arg' = <<nk0>>
    /\ called' = "updateNeighbor"
    /\ UNCHANGED <<outlier_, num_dimensions_, M_, neighbor, fsVars, mtVars,
                   caller_points, degVars, gwcVars>>

\* MultiVectorSkylineQueue::clear()
Queue_clear ==
    /\ object = "Queue"
    /\ pool_' = <<>>
    /\ num_layer_' = 0
    /\ error' = "none"
    /\ called' = "clear"
    /\ UNCHANGED <<outlier_, num_dimensions_, M_, fsVars, mtVars, caller_points,
                   degVars, gwcVars, auxVars>>

\* MultiVectorSkylineQueue(m, num_dimensions)
InitQueue ==
    /\ pool_ = <<>>
    /\ outlier_ = <<>>
    /\ num_layer_ = 0
    /\ num_dimensions_ \in Dims
    /\ M_ \in QueueCaps
    /\ called = "none"
    /\ error = "none"
    /\ fs_points = <<>>
    /\ fs_skyline = <<>>
    /\ fs_remain = <<>>
    /\ fs_state = "idle"
    /\ lock_ = 0
    /\ pc = [t \in Threads |-> "call"]
    /\ points_ = [t \in Threads |-> <<>>]
    /\ l_ = [t \in Threads |-> 0]
    /\ caller_points = <<>>
    /\ object = "Queue"
    /\ weight_combinations_ = <<>>
    /\ gwc = gwcIdle
    /\ auxInit

NextQueue ==
    \/ \E insert_points \in InitInputs(MaxPool, MaxPool + 1) : initQueue(insert_points)
    \/ \E nk0 \in NkBefore : Queue_updateNeighbor(nk0)
    \/ Queue_clear

SpecQueue == InitQueue /\ [][NextQueue]_vars

\* ------------------------------------------------------------ claim C28
\* the places of pool that hold a point with flag = true, counted from 0
FlaggedAt(pool) == {i \in 0..(Len(pool) - 1) : pool[i + 1].flag}

C28_WitnessUnchanged ==
    /\ called = "updateNeighbor"
    /\ error = "none"
    /\ M_ = 0
    /\ pool_ = <<>>
    /\ ret = arg[1]

\* ------------------------------------------------------------ claim C29
\* how often x occurs in the sequence s
Occurrences(s, x) == Cardinality({k \in 1..Len(s) : s[k] = x})

\* s and t hold the same elements, each as often
SameElements(s, t) ==
    /\ Len(s) = Len(t)
    /\ \A k \in 1..Len(s) : Occurrences(s, s[k]) = Occurrences(t, s[k])

C30_SetDimensionsKeepsContents ==
    [][\A num_dimensions \in Dims :
          setNumDimensions(num_dimensions) =>
              /\ error' = "none"
              /\ num_dimensions_' = num_dimensions
              /\ pool_' = pool_
              /\ outlier_' = outlier_
              /\ num_layer_' = num_layer_
              /\ M_' = M_]_vars

\* setNumDimensions(1) has returned on a container whose pool_ and outlier_
\* hold points with vectors of length 2
C30_Witness ==
    /\ called = "setNumDimensions"
    /\ error = "none"
    /\ num_dimensions_ = 1
    /\ pool_ # <<>>
    /\ outlier_ # <<>>
    /\ Len(pool_[1].distances_) = 2
    /\ num_layer_ >= 1

\* ------------------- SpecHull: MultiVectorSkylineQueue::findConvexHull
MaxHull == 3   \* longest input of one findConvexHull call

HullDims == {1, 2, 3}     \* the dimensionalities of the queue
HullValues == {0, 1, 2}   \* the distance values of the points of a hull call

\* the points of a hull call: the 2-D points over HullValues and, as
\* findConvexHull does not look at the length of distances_, a 1-D point
HullPoints ==
    {MultiVectorNeighbor(i, v, TRUE, 0) :
        i \in Ids, v \in [1..2 -> HullValues] \cup {<<1>>}}

\* what the caller's output vectors hold before the call: nothing, or the
\* result of an earlier call
HullOutputsBefore ==
    { <<(<<>>), (<<>>)>>,
      << <<MultiVectorNeighbor(1, <<0, 2>>, TRUE, 0),
           MultiVectorNeighbor(2, <<1, 1>>, TRUE, 0)>>,
         <<MultiVectorNeighbor(1, <<2, 2>>, TRUE, 0)>> >> }

\* the arguments <<points, convex_hull, remain_points>> of one call
HullArgs ==
    {<<points, o[1], o[2]>> : points \in SeqsUpTo(HullPoints, MaxHull),
                              o \in HullOutputsBefore}

\* cross(O, A, B) on points that have distances_[0] and distances_[1]; the
\* values are small integers, on which the float arithmetic is exact
cross(O, A, B) ==
    (A.distances_[2] - O.distances_[2]) * (B.distances_[1] - O.distances_[1]) -
    (A.distances_[1] - O.distances_[1]) * (B.distances_[2] - O.distances_[2])

\* the outcomes of the test cross(O, A, B) <= 0: distances_[1] of a 1-D
\* point is read beyond the end of its vector, the value read is any float
CrossNotPositive(O, A, B) ==
    IF Len(O.distances_) >= 2 /\ Len(A.distances_) >= 2 /\ Len(B.distances_) >= 2
    THEN {cross(O, A, B) <= 0}
    ELSE BOOLEAN

\* mutant of HullWhile: the popped point is not kept
RECURSIVE HullWhileDropping(_, _, _)
HullWhileDropping(convex_hull, remain_points, point) ==
    IF Len(convex_hull) >= 2
    THEN UNION {IF b
                THEN HullWhileDropping(SubSeq(convex_hull, 1, Len(convex_hull) - 1),
                                       remain_points, point)
                ELSE {[convex_hull |-> convex_hull, remain_points |-> remain_points]} :
                b \in CrossNotPositive(convex_hull[Len(convex_hull) - 1],
                                       convex_hull[Len(convex_hull)], point)}
    ELSE {[convex_hull |-> convex_hull, remain_points |-> remain_points]}

\* the while loop of findConvexHull for one point: the outcomes it can
\* leave in convex_hull and remain_points
RECURSIVE HullWhile(_, _, _)
HullWhile(convex_hull, remain_points, point) ==
    IF Len(convex_hull) >= 2
    THEN UNION {IF b
                THEN HullWhile(SubSeq(convex_hull, 1, Len(convex_hull) - 1),
                               Append(remain_points, convex_hull[Len(convex_hull)]),
                               point)
                ELSE {[convex_hull |-> convex_hull, remain_points |-> remain_points]} :
                b \in CrossNotPositive(convex_hull[Len(convex_hull) - 1],
                                       convex_hull[Len(convex_hull)], point)}
    ELSE {[convex_hull |-> convex_hull, remain_points |-> remain_points]}

\* the for loop of findConvexHull from its point i
RECURSIVE HullFor(_, _, _, _)
HullFor(points, i, convex_hull, remain_points) ==
    IF i > Len(points)
    THEN {[thrown |-> FALSE, convex_hull |-> convex_hull,
           remain_points |-> remain_points]}
    ELSE UNION {HullFor(points, i + 1, Append(w.convex_hull, points[i]),
                        w.remain_points) :
                w \in HullWhile(convex_hull, remain_points, points[i])}

\* findConvexHull(points, convex_hull, remain_points) of a queue of
\* dimensionality d: the outcomes of the call
FindConvexHull(points, convex_hull, remain_points, d) ==
    IF d # 2
    THEN {[thrown |-> TRUE, convex_hull |-> convex_hull,
           remain_points |-> remain_points]}
    ELSE HullFor(points, 1, convex_hull, remain_points)

\* MultiVectorSkylineQueue::findConvexHull on the arguments held in arg
findConvexHull ==
    /\ object = "Queue"
    /\ called = "none"
    /\ \E r \in FindConvexHull(arg[1], arg[2], arg[3], num_dimensions_) :
          /\ ret' = [convex_hull |-> r.convex_hull, remain_points |-> r.remain_points]
          /\ error' = IF r.thrown THEN "invalid_argument" ELSE "none"
    /\ called' = "findConvexHull"
    /\ UNCHANGED <<pool_, outlier_, num_layer_, num_dimensions_, M_, arg, neighbor,
                   fsVars, mtVars, caller_points, degVars, gwcVars>>

\* MultiVectorSkylineQueue(m, num_dimensions), and the caller's three vectors
InitHull ==
    /\ pool_ = <<>>
    /\ outlier_ = <<>>
    /\ num_layer_ = 0
    /\ num_dimensions_ \in HullDims
    /\ M_ = 0
    /\ called = "none"
    /\ error = "none"
    /\ fs_points = <<>>
    /\ fs_skyline = <<>>
    /\ fs_remain = <<>>
    /\ fs_state = "idle"
    /\ lock_ = 0
    /\ pc = [t \in Threads |-> "call"]
    /\ points_ = [t \in Threads |-> <<>>]
    /\ l_ = [t \in Threads |-> 0]
    /\ caller_points = <<>>
    /\ object = "Queue"
    /\ weight_combinations_ = <<>>
    /\ gwc = gwcIdle
    /\ arg \in HullArgs
    /\ ret = "none"
    /\ neighbor = <<>>

NextHull == findConvexHull

SpecHull == InitHull /\ [][NextHull]_vars

\* C31: findConvexHull on a queue whose dimensionality is not 2 throws and
\* leaves convex_hull and remain_points as they were; on a queue of
\* dimensionality 2 it returns, and every point value is in convex_hull and
\* remain_points together as often as it was in points and in the two output
\* vectors before the call (with empty outputs: every input point exactly
\* once in one of the two).
C31_ConvexHullPartitionsOrFails ==
    called = "findConvexHull" =>
        IF num_dimensions_ # 2
        THEN /\ error = "invalid_argument"
             /\ ret.convex_hull = arg[2]
             /\ ret.remain_points = arg[3]
        ELSE /\ error = "none"
             /\ \A x \in HullPoints :
                   Occurrences(ret.convex_hull, x) + Occurrences(ret.remain_points, x)
                   = Occurrences(arg[1], x) + Occurrences(arg[2], x)
                     + Occurrences(arg[3], x)

\* a 2-D call on three points that moved a point to remain_points
C31_Witness ==
    /\ called = "findConvexHull"
    /\ num_dimensions_ = 2
    /\ Len(arg[1]) = 3
    /\ arg[2] = <<>>
    /\ arg[3] = <<>>
    /\ Len(ret.remain_points) = 1
    /\ Len(ret.convex_hull) = 2

\* a call on a queue of another dimensionality, with outputs that held points
C31_WitnessThrown ==
    /\ called = "findConvexHull"
    /\ num_dimensions_ = 3
    /\ error = "invalid_argument"
    /\ Len(arg[1]) > 0
    /\ Len(arg[2]) > 0

\* ------------------------------------ SpecCopy: the copy constructors
\* The copy is a second object; ret holds its members.

\* mutant of MultiVectorGPS_copy: pool_ and outlier_ are copied too
MultiVectorGPS_copy_with_contents ==
    /\ object = "GPS"
    /\ ret' = [M_ |-> M_, num_layer_ |-> num_layer_,
               num_dimensions_ |-> num_dimensions_,
               pool_ |-> pool_, outlier_ |-> outlier_, lock_ |-> 0]
    /\ called' = "copy"
    /\ error' = "none"
    /\ UNCHANGED <<pool_, outlier_, num_layer_, num_dimensions_, M_, arg, neighbor,
                   fsVars, mtVars, caller_points, degVars, gwcVars>>

\* MultiVectorGPS copy(other) with this instance as other: M_, num_layer_
\* and num_dimensions_ from other, pool_ reserved and empty, outlier_ and
\* lock_ default-constructed
MultiVectorGPS_copy ==
    /\ object = "GPS"
    /\ ret' = [M_ |-> M_, num_layer_ |-> num_layer_,
               num_dimensions_ |-> num_dimensions_,
               pool_ |-> <<>>, outlier_ |-> <<>>, lock_ |-> 0]
    /\ called' = "copy"
    /\ error' = "none"
    /\ UNCHANGED <<pool_, outlier_, num_layer_, num_dimensions_, M_, arg, neighbor,
                   fsVars, mtVars, caller_points, degVars, gwcVars>>

\* MultiVectorSkylineQueue copy(other) with this queue as other; the queue
\* has no outlier_ and no lock_
MultiVectorSkylineQueue_copy ==
    /\ object = "Queue"
    /\ ret' = [M_ |-> M_, num_layer_ |-> num_layer_,
               num_dimensions_ |-> num_dimensions_, pool_ |-> <<>>]
    /\ called' = "copy"
    /\ error' = "none"
    /\ UNCHANGED <<pool_, outlier_, num_layer_, num_dimensions_, M_, arg, neighbor,
                   fsVars, mtVars, caller_points, degVars, gwcVars>>

\* an empty MultiVectorGPS or an empty MultiVectorSkylineQueue
InitCopy == Init \/ InitQueue

NextCopy ==
    \/ object = "GPS" /\ Next
    \/ object = "Queue" /\ NextQueue
    \/ MultiVectorGPS_copy
    \/ MultiVectorSkylineQueue_copy

SpecCopy == InitCopy /\ [][NextCopy]_vars

\* C32: copy-constructing from a MultiVectorGPS or a MultiVectorSkylineQueue
\* gives an object with an empty pool_ (and, for MultiVectorGPS, an empty
\* outlier_) that has the source's M_, num_dimensions_ and num_layer_; the
\* source's pool_, outlier_, num_layer_, num_dimensions_ and M_ are as before.
\* Only the copy constructors set called to "copy".
C32_CopyIsEmptyWithSameSettings ==
    [][ /\ (called' = "copy" /\ object = "GPS") =>
            /\ ret'.pool_ = <<>>
            /\ ret'.outlier_ = <<>>
            /\ ret'.M_ = M_
            /\ ret'.num_dimensions_ = num_dimensions_
            /\ ret'.num_layer_ = num_layer_
            /\ UNCHANGED <<pool_, outlier_, num_layer_, num_dimensions_, M_>>
        /\ (called' = "copy" /\ object = "Queue") =>
            /\ ret'.pool_ = <<>>
            /\ ret'.M_ = M_
            /\ ret'.num_dimensions_ = num_dimensions_
            /\ ret'.num_layer_ = num_layer_
            /\ UNCHANGED <<pool_, num_layer_, num_dimensions_, M_>> ]_vars

\* a copy of a MultiVectorGPS that holds two points and an outlier
C32_Witness ==
    /\ called = "copy"
    /\ object = "GPS"
    /\ Len(pool_) = 2
    /\ Len(outlier_) > 0
    /\ num_layer_ = 1
    /\ ret.pool_ = <<>>
    /\ ret.num_layer_ = 1

\* a copy of a MultiVectorSkylineQueue that holds points
C32_WitnessQueue ==
    /\ called = "copy"
    /\ object = "Queue"
    /\ Len(pool_) > 0
    /\ ret.pool_ = <<>>
    /\ ret.num_layer_ > 0

\* ------ SpecOps: initNeighbor, updateNeighbor, insert and clear only
\* The dimensionality stays as constructed; every initNeighbor input has
\* pairwise distinct ids.
OpsInputs == {p \in InitInputs(MaxLen + 1, MaxPool + 1) : DistinctIds(p)}

NextOps ==
    \/ \E insert_points \in OpsInputs : initNeighbor(insert_points)
    \/ updateNeighbor
    \/ \E id \in Ids, distances \in Vectors(DefaultDim) : insert(id, distances)
    \/ clear

SpecOps == Init /\ [][NextOps]_vars

\* C33: in every state between calls of initNeighbor, updateNeighbor, insert
\* and clear, num_layer_ (what getNumLayer() returns) is 0 when pool_ is
\* empty and otherwise one more than the largest layer_ of a point of pool_.
C33_LayerCountMatchesPool ==
    num_layer_ = IF pool_ = <<>>
                 THEN 0
                 ELSE 1 + SetMax({pool_[k].layer_ : k \in 1..Len(pool_)})

\* C34: in every state between calls of initNeighbor, updateNeighbor, insert
\* and clear, where every initNeighbor input had pairwise distinct ids, no
\* two points of pool_ have the same id_.
C34_PoolIdsDistinct == DistinctIds(pool_)

\* C35: an updateNeighbor call that directly follows a completed
\* updateNeighbor call leaves pool_ (ids, layers and order) and num_layer_
\* as the first call left them.
C35_UpdateIdempotent ==
    [][(Returned("updateNeighbor") /\ called' = "updateNeighbor") =>
        /\ pool_' = pool_
        /\ num_layer_' = num_layer_]_vars

\* C35, without the order: the second call leaves the same points with the
\* same layers and the same num_layer_ (kept for comparison)
C35_UpdateIdempotentUpToOrder ==
    [][(Returned("updateNeighbor") /\ called' = "updateNeighbor") =>
        /\ error' = "none"
        /\ SameElements(pool_', pool_)
        /\ num_layer_' = num_layer_]_vars

\* ------------- SpecDegPool: the pool of MultiVectorDEG and its bitmaps
\* The points are MultiVectorDEGNeighbor objects: the members of a
\* MultiVectorNeighbor, num_weight_combinations_ and pruning_bitmap_.
\* weight_combinations_ is GeneratedFor(num_dimensions_), as in SpecDim.
MaxDegPool == 3   \* initNeighbor is not called when pool_ would exceed this
MaxDegLen == 1    \* longest input vector of one initNeighbor call

DegDims == {2, 3}    \* the dimensionalities of the instance
DegCaps == {0, 2}    \* the capacities M_ of the instance

\* the size of generateWeightCombinations(num_dimensions) for
\* num_dimensions >= 1: the number of tenths tuples that sum to 1
CombinationCount(num_dimensions) == Binomial(10 + num_dimensions - 1, num_dimensions - 1)

\* getNumWeightCombinations(): num_weight_combinations_ of the instance
getNumWeightCombinations == CombinationCount(weight_combinations_[2])

\* MultiVectorDEGNeighbor(id, distances, num_weight_combinations, f, layer)
DEGNeighbor(id, distances, num_weight_combinations, f, layer) ==
    [id_ |-> id, distances_ |-> distances, flag |-> f, layer_ |-> layer,
     num_weight_combinations_ |-> num_weight_combinations,
     pruning_bitmap_ |-> NewNeighbor(num_weight_combinations).pruning_bitmap_]

\* the distance vectors of the caller's points
DegVectors == {<<0, 0>>, <<1, 1>>, <<0, 0, 0>>, <<1, 1, 1>>}

\* the points a caller builds: constructed with the count of the vector's
\* dimensionality, then left as constructed or marked with
\* setPruned(count - 1, true)
DegInputPoints ==
    UNION {LET n == DEGNeighbor(i, v, CombinationCount(Len(v)), TRUE, 0)
           IN {n, setPrunedOf(n, CombinationCount(Len(v)) - 1, TRUE).n} :
           i \in Ids, v \in DegVectors}

DegInputs ==
    SeqsUpTo(DegInputPoints, Min2(MaxDegLen, MaxDegPool - Len(pool_)))

\* pool_.emplace_back(point.id_, point.distances_, num_weight_combinations_,
\*                    true, l) for one frontier
DegInitEmplace(skyline_result, l, num_weight_combinations) ==
    [i \in 1..Len(skyline_result) |->
        DEGNeighbor(skyline_result[i].id_, skyline_result[i].distances_,
                    num_weight_combinations, TRUE, l)]

\* pool_.emplace_back(point.id_, point.distances_, num_weight_combinations_,
\*                    point.flag, l) for one frontier
DegUpdateEmplace(skyline_result, l, num_weight_combinations) ==
    [i \in 1..Len(skyline_result) |->
        DEGNeighbor(skyline_result[i].id_, skyline_result[i].distances_,
                    num_weight_combinations, skyline_result[i].flag, l)]

\* the while loop of MultiVectorDEG::initNeighbor from one of its loop heads
RECURSIVE DegInitLoop(_, _, _, _, _, _)
DegInitLoop(insert_points, pool, outlier, l, d, num_weight_combinations) ==
    IF insert_points = <<>>
    THEN [thrown |-> FALSE, pool |-> pool, outlier |-> outlier, l |-> l]
    ELSE LET r == FindSkyline(insert_points, <<>>, <<>>, d)
         IN IF r.thrown
            THEN [thrown |-> TRUE, pool |-> pool, outlier |-> outlier, l |-> l]
            ELSE DegInitLoop(r.remain_points,
                             pool \o DegInitEmplace(r.skyline, l, num_weight_combinations),
                             r.skyline, l + 1, d, num_weight_combinations)

\* the while loop of MultiVectorDEG::updateNeighbor from one of its loop heads
RECURSIVE DegUpdateLoop(_, _, _, _, _, _, _)
DegUpdateLoop(candidate, pool, outlier, l, m, d, num_weight_combinations) ==
    IF ~(Len(pool) < m /\ Len(candidate) > 0)
    THEN [thrown |-> FALSE, pool |-> pool, outlier |-> outlier, l |-> l]
    ELSE LET r == FindSkyline(candidate, <<>>, <<>>, d)
         IN IF r.thrown
            THEN [thrown |-> TRUE, pool |-> pool, outlier |-> outlier, l |-> l]
            ELSE DegUpdateLoop(r.remain_points,
                               pool \o DegUpdateEmplace(r.skyline, l, num_weight_combinations),
                               r.skyline, l + 1, m, d, num_weight_combinations)

\* MultiVectorDEG::initNeighbor(insert_points)
MultiVectorDEG_initNeighbor(insert_points) ==
    /\ object = "DEG"
    /\ LET r == DegInitLoop(insert_points, pool_, outlier_, 0, num_dimensions_,
                            getNumWeightCombinations)
       IN IF r.thrown
          THEN /\ pool_' = r.pool
               /\ outlier_' = r.outlier
               /\ num_layer_' = num_layer_
               /\ error' = "invalid_argument"
          ELSE /\ pool_' \in SortResults(r.pool)
               /\ outlier_' = r.outlier
               /\ num_layer_' = r.l
               /\ error' = "none"
    /\ called' = "MultiVectorDEG::initNeighbor"
    /\ UNCHANGED <<num_dimensions_, M_, fsVars, mtVars, caller_points, degVars,
                   gwcVars, auxVars>>

\* MultiVectorDEG::updateNeighbor()
MultiVectorDEG_updateNeighbor ==
    /\ object = "DEG"
    /\ \E candidate \in SortResults(pool_) :
          LET r == DegUpdateLoop(candidate, <<>>, outlier_, 0, M_, num_dimensions_,
                                 getNumWeightCombinations)
          IN /\ pool_' = r.pool
             /\ outlier_' = r.outlier
             /\ num_layer_' = IF r.thrown THEN num_layer_ ELSE r.l
             /\ error' = IF r.thrown THEN "invalid_argument" ELSE "none"
    /\ called' = "MultiVectorDEG::updateNeighbor"
    /\ UNCHANGED <<num_dimensions_, M_, fsVars, mtVars, caller_points, degVars,
                   gwcVars, auxVars>>

\* MultiVectorDEG::clear()
MultiVectorDEG_clear ==
    /\ object = "DEG"
    /\ pool_' = <<>>
    /\ outlier_' = <<>>
    /\ num_layer_' = 0
    /\ error' = "none"
    /\ called' = "MultiVectorDEG::clear"
    /\ UNCHANGED <<num_dimensions_, M_, fsVars, mtVars, caller_points, degVars,
                   gwcVars, auxVars>>

\* MultiVectorDEG(m, s, q, num_dimensions): an empty instance
InitDegPool ==
    /\ pool_ = <<>>
    /\ outlier_ = <<>>
    /\ num_layer_ = 0
    /\ num_dimensions_ \in DegDims
    /\ M_ \in DegCaps
    /\ called = "none"
    /\ error = "none"
    /\ fs_points = <<>>
    /\ fs_skyline = <<>>
    /\ fs_remain = <<>>
    /\ fs_state = "idle"
    /\ lock_ = 0
    /\ pc = [t \in Threads |-> "call"]
    /\ points_ = [t \in Threads |-> <<>>]
    /\ l_ = [t \in Threads |-> 0]
    /\ caller_points = <<>>
    /\ object = "DEG"
    /\ weight_combinations_ = initializeWeightCombinations(num_dimensions_)
    /\ gwc = gwcIdle
    /\ auxInit

NextDegPool ==
    \/ \E insert_points \in DegInputs : MultiVectorDEG_initNeighbor(insert_points)
    \/ MultiVectorDEG_updateNeighbor
    \/ MultiVectorDEG_clear
    \/ \E num_dimensions \in DegDims : MultiVectorDEG_setNumDimensions(num_dimensions)

SpecDegPool == InitDegPool /\ [][NextDegPool]_vars

\* the bitmap of a point built for count combinations, no bit set
ClearBitmap(count) == [w \in 1..((count + 63) \div 64) |-> {}]

\* C36: after every completed MultiVectorDEG::initNeighbor or updateNeighbor
\* every point of pool_ has a pruning_bitmap_ of ceil(K/64) words for the
\* instance's current count K of weight combinations, with no bit set.
C36_PoolBitmapsClearAndSized ==
    (called \in {"MultiVectorDEG::initNeighbor", "MultiVectorDEG::updateNeighbor"}
        /\ error = "none") =>
        \A k \in 1..Len(pool_) :
            pool_[k].pruning_bitmap_ = ClearBitmap(getNumWeightCombinations)

\* C36, the part about the bits: in every state no point of pool_ has a bit
\* set, whatever bits the input points had (kept for comparison)
C36_PoolBitsClear ==
    \A k \in 1..Len(pool_) :
        pool_[k].pruning_bitmap_ = ClearBitmap(pool_[k].num_weight_combinations_)

\* --------- SpecRace: setNumDimensions beside the locked operations
\* Thread 1 calls initNeighbor on the caller's points and updateNeighbor;
\* another thread calls setNumDimensions, which takes no lock: its write of
\* num_dimensions_ falls before, between or after the passes of thread 1,
\* each of which reads num_dimensions_ once (expected_dim).
NextRace ==
    \/ pool_ = <<>> /\ lock_guard(1, "initNeighbor", caller_points)
    \/ initNeighbor_pass(1)
    \/ lock_guard(1, "updateNeighbor", <<>>)
    \/ updateNeighbor_swap(1)
    \/ updateNeighbor_pass(1)
    \/ unlock(1)
    \/ \E num_dimensions \in Dims : setNumDimensions(num_dimensions)

SpecRace == InitPeel /\ [][NextRace]_vars

\* C37: a setNumDimensions call beside a running initNeighbor or
\* updateNeighbor does not change the dimensionality its passes validate
\* against: a call whose first pass was accepted (l > 0, pool_ rebuilt in
\* part) does not end with the dimension error in a later pass.
C37_NoDimensionErrorAfterFirstPass ==
    [][\A t \in Threads :
          (InLoop(t) /\ pc'[t] = "unlock" /\ error' = "invalid_argument") =>
              l_[t] = 0]_vars

\* C37, the same without setNumDimensions beside the call: num_dimensions_
\* is the same in every pass, and the dimension error comes in the first
\* pass or not at all (kept for comparison, holds in SpecPeel)
C37_SequentialCallFailsAtOnce ==
    [][\A t \in Threads :
          /\ InLoop(t) => num_dimensions_' = num_dimensions_
          /\ (InLoop(t) /\ pc'[t] = "unlock" /\ error' = "invalid_argument") =>
                l_[t] = 0]_vars
====
